---- MODULE Spec2Model ----
(***************************************************************************)
(* Poker-planning backend: the Session aggregate (Session, VotingRound,    *)
(* Vote, Participant), the Redis session repository, the use cases and the *)
(* Socket.IO gateway (SocketManager).                                      *)
(*                                                                         *)
(* Three specifications share the module:                                  *)
(*   SpecRound  a single VotingRound object driven through its methods;    *)
(*   SpecAgg    a single in-memory Session driven through its methods;     *)
(*   Spec       the server: store, sockets, rooms and the asynchronous     *)
(*              handlers, each split at the awaits where the event loop    *)
(*              can run another handler.                                   *)
(***************************************************************************)
EXTENDS Integers, Sequences, FiniteSets, TLC

VARIABLES
    round,      \* SpecRound: the VotingRound under test
    rlast,      \* SpecRound: the last method call, its outcome and the round before it
    agg,        \* SpecAgg: the Session under test
    alast,      \* SpecAgg: the last method call, its outcome and the session before it
    removed,    \* SpecAgg: the ids removed from the session while they held a vote
                \*          in the current round, and that have not voted in it since
    store,      \* Spec: Redis, session id -> serialized session, or Null
    created,    \* Spec: session ids already generated by CreateSession
    nextPid,    \* Spec: number of participant ids generated so far
    sockData,   \* Spec: socket.data of every connection
    sockState,  \* Spec: every socket id: "new" (not yet used), "open" or "closed"
    rooms,      \* Spec: Socket.IO rooms, session id -> set of sockets
    sessionParticipants, \* Spec: SocketManager.sessionParticipants (groups that exist only)
    tasks,      \* Spec: the handler invocations in flight, each awaiting the reply
                \*       to a Redis command, in the order the commands were issued
    done,       \* Spec: the handler invocation the last step completed, or Null
    ops,        \* Spec: number of client requests and key expiries so far
    socket,     \* SpecClient: WebSocketService.socket and the listeners on it
    sessionUpdateHandler, \* SpecClient: WebSocketService.sessionUpdateHandler
    errorHandler,         \* SpecClient: WebSocketService.errorHandler
    session,    \* SpecClient: the session state of the useSession hook
    srvGroup,   \* SpecClient: server socket ids registered in the session's group
    joinReq,    \* SpecClient: server socket ids whose session:join is in flight
    nextSock,   \* SpecClient: Socket objects created so far
    nextSid,    \* SpecClient: server socket ids handed out so far
    rx,         \* SpecClient: the last session:updated message dispatched
    handled,    \* SpecClient: calls of handleSessionUpdated so far
    cops,       \* SpecClient: calls, drops and server messages so far
    redis,      \* SpecStore: Redis, key -> the value and the seconds it has left
    idle,       \* SpecStore: key -> time since its last save, -1 before the first
    now,        \* SpecStore: time elapsed
    scale,      \* SpecScale: the values of the Scale constructed, or Null
    slast,      \* SpecScale: the last isValidValue call and its result, or Null
    gwState,    \* SpecGateway: every socket id: "new", "open" or "closed"
    gwData,     \* SpecGateway: socket.data.sessionId of every socket, or "none"
    gwRooms,    \* SpecGateway: Socket.IO rooms, session id -> set of sockets
    gwTracked,  \* SpecGateway: sessionParticipants, session id -> set of socket ids
    gwRx,       \* SpecGateway: the last room emit: its session and its receivers
    gwOps       \* SpecGateway: events handled so far

vars == <<round, rlast, agg, alast, removed, store, created, nextPid, sockData, sockState,
          rooms, sessionParticipants, tasks, done, ops,
          socket, sessionUpdateHandler, errorHandler, session, srvGroup, joinReq,
          nextSock, nextSid, rx, handled, cops, redis, idle, now,
          scale, slast,
          gwState, gwData, gwRooms, gwTracked, gwRx, gwOps>>

gwVars == <<gwState, gwData, gwRooms, gwTracked, gwRx, gwOps>>

scaleVars == <<scale, slast>>

redisVars == <<redis, idle, now>>

clientVars == <<socket, sessionUpdateHandler, errorHandler, session, srvGroup, joinReq,
                nextSock, nextSid, rx, handled, cops>>

roundVars == <<round, rlast>>
aggVars == <<agg, alast, removed>>
srvVars == <<store, created, nextPid, sockData, sockState, rooms,
             sessionParticipants, tasks, done, ops>>

-----------------------------------------------------------------------------
(* Bounds of the model *)

\* client requests and key expiries per behaviour of Spec
MaxOps == 4
\* handler invocations in flight at the same time
MaxTasks == 2
\* participant ids the join use case can generate
MaxPids == 2
\* rounds a session of SpecAgg may finish
MaxHistory == 1
\* SpecHistory: rounds finished in a behaviour
MaxRounds == 3
\* SpecClient: Socket objects the service creates, and calls, drops and server
\* messages in a behaviour
MaxSockets == 2
MaxClientOps == 5
\* SpecStore: the time a behaviour lasts, in units of which the time-to-live
\* is DefaultTtl
MaxTime == 7
\* SpecScale: the longest list of values given to Scale.custom
MaxScaleLen == 3
\* SpecGateway: events handled by the gateway
MaxGwOps == 5

-----------------------------------------------------------------------------
(* Values *)

Null == [nil |-> TRUE]

\* participant ids: the "<role>-<uuid>" strings JoinSession generates, in the
\* order of their generation
PidNames == <<"p1", "p2", "p3", "p4">>
ParticipantIds == {PidNames[i] : i \in 1 .. MaxPids}
\* an id no participant has, and the creator id given at creation
UnknownId == "nobody"
CreatorId == "creator"

Roles == {"participant", "spectator"}

\* Scale.fibonacci(), the part of it the model draws votes from
FibonacciValues == <<"1", "2", "3", "5", "8", "13", "21", "34", "55", "89">>
SpecialValues == {"ABSTAIN", "COFFEE", "?"}

\* raw vote values a client may send: two scale members, a special value,
\* a value of another scale and the empty string
VoteInputs == {"5", "8", "?", "XL", ""}

SeqToSet(s) == {s[i] : i \in DOMAIN s}

\* Scale.isValidValue
Scale_isValidValue(values, v) == v \in SeqToSet(values)

\* VoteValue.isSpecialValue
VoteValue_isSpecialValue(v) == v \in SpecialValues

\* VoteValue constructor: TRUE iff it does not throw
VoteValue_valid(v, values) ==
    /\ v # ""
    /\ (VoteValue_isSpecialValue(v) \/ Scale_isValidValue(values, v))

ValidVotes == {v \in VoteInputs : VoteValue_valid(v, FibonacciValues)}

-----------------------------------------------------------------------------
(* JavaScript's Map with its insertion order: a sequence of [key, val]     *)

Map_has(m, k) == \E i \in DOMAIN m : m[i].key = k

Map_index(m, k) == CHOOSE i \in DOMAIN m : m[i].key = k

Map_get(m, k) == m[Map_index(m, k)].val

\* variant: a set that always adds an entry
Map_set_append(m, k, v) == Append(m, [key |-> k, val |-> v])

\* Map.set: an existing key keeps its position
Map_set(m, k, v) ==
    IF Map_has(m, k) THEN [m EXCEPT ![Map_index(m, k)] = [key |-> k, val |-> v]]
    ELSE Append(m, [key |-> k, val |-> v])

\* Map.delete
Map_delete(m, k) ==
    IF Map_has(m, k)
    THEN LET j == Map_index(m, k)
         IN [i \in 1 .. (Len(m) - 1) |-> IF i < j THEN m[i] ELSE m[i + 1]]
    ELSE m


-----------------------------------------------------------------------------
(* Vote *)

\* Vote constructor: revealed starts false
Vote_new(pid, v) == [participantId |-> pid, value |-> v, revealed |-> FALSE]

\* Vote.reveal
Vote_reveal(vote) == [vote EXCEPT !.revealed = TRUE]

-----------------------------------------------------------------------------
(* VotingRound.  A method result is [ok, r]: ok = FALSE when it throws,    *)
(* and then r is the round as the throw left it.                           *)

VotingRound_new(q) == [question |-> q, status |-> "voting", votes |-> <<>>]

VotingRound_isActive(r) == r.status = "voting"

VotingRound_areVotesRevealed(r) == r.status \in {"revealed", "finished"}

VotingRound_isFinished(r) == r.status = "finished"

RevealAll(votes) ==
    [i \in DOMAIN votes |-> [key |-> votes[i].key, val |-> Vote_reveal(votes[i].val)]]

\* variant: submitVote without its status check
VotingRound_submitVote_unguarded(r, pid, v) ==
    [ok |-> TRUE, r |-> [r EXCEPT !.votes = Map_set(r.votes, pid, Vote_new(pid, v))]]

VotingRound_submitVote(r, pid, v) ==
    IF ~VotingRound_isActive(r) THEN [ok |-> FALSE, r |-> r]
    ELSE [ok |-> TRUE, r |-> [r EXCEPT !.votes = Map_set(r.votes, pid, Vote_new(pid, v))]]

\* variant: reveal that sets the status and leaves the votes unmarked
VotingRound_reveal_unmarked(r) ==
    IF ~VotingRound_isActive(r) THEN [ok |-> FALSE, r |-> r]
    ELSE [ok |-> TRUE, r |-> [r EXCEPT !.status = "revealed"]]

VotingRound_reveal(r) ==
    IF ~VotingRound_isActive(r) THEN [ok |-> FALSE, r |-> r]
    ELSE [ok |-> TRUE, r |-> [r EXCEPT !.status = "revealed", !.votes = RevealAll(r.votes)]]

\* finish: the status is assigned before areVotesRevealed() is consulted
VotingRound_finish(r) ==
    IF VotingRound_isFinished(r) THEN [ok |-> TRUE, r |-> r]
    ELSE LET r1 == [r EXCEPT !.status = "finished"]
         IN [ok |-> TRUE,
             r |-> IF ~VotingRound_areVotesRevealed(r1)
                   THEN [r1 EXCEPT !.votes = RevealAll(r1.votes)]
                   ELSE r1]

VotingRound_removeVote(r, pid) == [r EXCEPT !.votes = Map_delete(r.votes, pid)]

-----------------------------------------------------------------------------
(* Session.  A method result is [ok, s].                                   *)

Session_new ==
    [active |-> TRUE, participants |-> <<>>, currentVote |-> Null, voteHistory |-> <<>>]

\* Participant constructor: connected starts true
Participant_new(pid, role) == [id |-> pid, role |-> role, connected |-> TRUE]

Session_findParticipant(s, pid) ==
    IF Map_has(s.participants, pid) THEN Map_get(s.participants, pid) ELSE Null

\* variant: every role may vote
Participant_canVote_any(p) == TRUE

\* Participant.canVote
Participant_canVote(p) == p.role = "participant"

Session_addParticipant(s, p) ==
    [s EXCEPT !.participants = Map_set(s.participants, p.id, p)]

\* variant: removeParticipant that leaves the round's votes alone
Session_removeParticipant_keepVote(s, pid) ==
    [s EXCEPT !.participants = Map_delete(s.participants, pid)]

Session_removeParticipant(s, pid) ==
    LET s1 == [s EXCEPT !.participants = Map_delete(s.participants, pid)]
    IN IF s1.currentVote # Null
       THEN [s1 EXCEPT !.currentVote = VotingRound_removeVote(s1.currentVote, pid)]
       ELSE s1

Session_isVotingActive(s) ==
    s.currentVote # Null /\ VotingRound_isActive(s.currentVote)

\* startVoting: throws while a vote is active, and (VotingRound constructor)
\* on an empty question
Session_startVoting(s, q) ==
    IF Session_isVotingActive(s) THEN [ok |-> FALSE, s |-> s]
    ELSE IF q = "" THEN [ok |-> FALSE, s |-> s]
    ELSE [ok |-> TRUE, s |-> [s EXCEPT !.currentVote = VotingRound_new(q)]]

Session_submitVote(s, pid, v) ==
    IF s.currentVote = Null THEN [ok |-> FALSE, s |-> s]
    ELSE LET p == Session_findParticipant(s, pid)
         IN IF p = Null \/ ~Participant_canVote(p) THEN [ok |-> FALSE, s |-> s]
            ELSE LET res == VotingRound_submitVote(s.currentVote, pid, v)
                 IN [ok |-> res.ok, s |-> [s EXCEPT !.currentVote = res.r]]

Session_revealVotes(s) ==
    IF s.currentVote = Null THEN [ok |-> FALSE, s |-> s]
    ELSE LET res == VotingRound_reveal(s.currentVote)
         IN [ok |-> res.ok, s |-> [s EXCEPT !.currentVote = res.r]]

\* variant: finishVoting that moves the round to the history as it is,
\* without finishing it
Session_finishVoting_unfinished(s) ==
    IF s.currentVote = Null THEN [ok |-> FALSE, s |-> s]
    ELSE [ok |-> TRUE,
          s |-> [s EXCEPT !.voteHistory = Append(s.voteHistory, s.currentVote),
                          !.currentVote = Null]]

\* variant: finishVoting that leaves the finished round as the current one
Session_finishVoting_keep(s) ==
    IF s.currentVote = Null THEN [ok |-> FALSE, s |-> s]
    ELSE LET res == VotingRound_finish(s.currentVote)
         IN [ok |-> TRUE,
             s |-> [s EXCEPT !.voteHistory = Append(s.voteHistory, res.r),
                             !.currentVote = res.r]]

\* variant: finishVoting that puts the finished round first in the history
Session_finishVoting_unshift(s) ==
    IF s.currentVote = Null THEN [ok |-> FALSE, s |-> s]
    ELSE LET res == VotingRound_finish(s.currentVote)
         IN [ok |-> TRUE,
             s |-> [s EXCEPT !.voteHistory = <<res.r>> \o s.voteHistory,
                             !.currentVote = Null]]

Session_finishVoting(s) ==
    IF s.currentVote = Null THEN [ok |-> FALSE, s |-> s]
    ELSE LET res == VotingRound_finish(s.currentVote)
         IN [ok |-> TRUE,
             s |-> [s EXCEPT !.voteHistory = Append(s.voteHistory, res.r),
                             !.currentVote = Null]]

Session_deactivate(s) == [s EXCEPT !.active = FALSE]

Session_activate(s) == [s EXCEPT !.active = TRUE]

-----------------------------------------------------------------------------
(* RedisSessionRepository: what is written to and read from Redis.         *)
(* The scale (always Scale.fibonacci() here), the ids, the names and the   *)
(* dates are left out of the record.                                       *)

SerializeRound(r) ==
    [question |-> r.question,
     status |-> r.status,
     votes |-> [i \in DOMAIN r.votes |->
                  [participantId |-> r.votes[i].key,
                   voteValue |-> r.votes[i].val.value,
                   isRevealed |-> r.votes[i].val.revealed]]]

Repo_serializeSession(s) ==
    [isActive |-> s.active,
     participants |-> [i \in DOMAIN s.participants |->
                         [id |-> s.participants[i].val.id,
                          role |-> s.participants[i].val.role,
                          isConnected |-> s.participants[i].val.connected]],
     currentVote |-> IF s.currentVote = Null THEN Null ELSE SerializeRound(s.currentVote),
     voteHistory |-> [i \in DOMAIN s.voteHistory |-> SerializeRound(s.voteHistory[i])]]

RECURSIVE AddParticipants(_, _)
AddParticipants(s, ps) ==
    IF ps = <<>> THEN s
    ELSE LET d == Head(ps)
             p == [Participant_new(d.id, d.role) EXCEPT !.connected = d.isConnected]
         IN AddParticipants(Session_addParticipant(s, p), Tail(ps))

\* the loop "for (const voteData of data.currentVote.votes)": res is [ok, s]
RECURSIVE SubmitVotes(_, _)
SubmitVotes(res, vs) ==
    IF vs = <<>> \/ ~res.ok THEN res
    ELSE LET d == Head(vs)
         IN IF ~VoteValue_valid(d.voteValue, FibonacciValues)
            THEN [ok |-> FALSE, s |-> res.s]
            ELSE SubmitVotes(Session_submitVote(res.s, d.participantId, d.voteValue), Tail(vs))

\* deserializeSession: a new Session is driven through its own methods; the
\* vote history is not read back.  [ok, s]; ok = FALSE when a method throws.
Repo_deserializeSession(data) ==
    LET s0 == Session_new
        s1 == IF ~data.isActive THEN Session_deactivate(s0) ELSE s0
        s2 == AddParticipants(s1, data.participants)
    IN IF data.currentVote = Null THEN [ok |-> TRUE, s |-> s2]
       ELSE LET started == Session_startVoting(s2, data.currentVote.question)
                voted == SubmitVotes(started, data.currentVote.votes)
            IN IF ~voted.ok THEN voted
               ELSE IF data.currentVote.status = "revealed" THEN Session_revealVotes(voted.s)
               ELSE IF data.currentVote.status = "finished" THEN Session_finishVoting(voted.s)
               ELSE voted

\* findById: Null for a missing key, [ok |-> FALSE] when deserializing throws
Repo_findById(raw) ==
    IF raw = Null THEN [ok |-> TRUE, s |-> Null] ELSE Repo_deserializeSession(raw)

-----------------------------------------------------------------------------
(* Use cases.  Each takes what findById returned ([ok, s]) and the command, *)
(* and returns [ok, s, err]: the session to save when ok, the message of   *)
(* the Error thrown otherwise.  validateCommand runs before the load and   *)
(* is a separate operator.                                                 *)

Thrown(msg) == [ok |-> FALSE, s |-> Null, err |-> msg]
Returned(sess) == [ok |-> TRUE, s |-> sess, err |-> ""]

\* the checks the four use cases share: the load itself, "Session not found"
\* and "Session is not active"; "" when they pass
LoadError(found) ==
    IF ~found.ok THEN "Failed to deserialize session"
    ELSE IF found.s = Null THEN "Session not found"
    ELSE IF ~found.s.active THEN "Session is not active"
    ELSE ""

\* variant: the permission check with the creator let through
CanAct_creator(sess, initiatorId) ==
    LET p == Session_findParticipant(sess, initiatorId)
    IN IF initiatorId = CreatorId THEN TRUE
       ELSE IF p = Null THEN FALSE ELSE Participant_canVote(p)

\* canInitiateVoting, canRevealVotes, canFinishVoting: the same body
CanAct(sess, initiatorId) ==
    LET p == Session_findParticipant(sess, initiatorId)
    IN IF p = Null THEN FALSE ELSE Participant_canVote(p)

StartVoting_validateCommand(q) == q # ""

StartVoting_execute(found, q, initiatorId) ==
    IF LoadError(found) # "" THEN Thrown(LoadError(found))
    ELSE IF Session_isVotingActive(found.s) THEN Thrown("Voting is already active")
    ELSE IF ~CanAct(found.s, initiatorId)
         THEN Thrown("Only participants or session creator can start voting")
    ELSE LET res == Session_startVoting(found.s, q)
         IN IF res.ok THEN Returned(res.s) ELSE Thrown("Question cannot be empty")

SubmitVote_validateCommand(v) == v # ""

SubmitVote_execute(found, participantId, v) ==
    IF LoadError(found) # "" THEN Thrown(LoadError(found))
    ELSE IF ~Session_isVotingActive(found.s) THEN Thrown("No active voting round")
    ELSE IF ~CanAct(found.s, participantId) THEN Thrown("Participant not found or cannot vote")
    ELSE IF ~VoteValue_valid(v, FibonacciValues) THEN Thrown("Vote value is not valid for scale")
    ELSE LET res == Session_submitVote(found.s, participantId, v)
         IN IF res.ok THEN Returned(res.s) ELSE Thrown("Cannot submit vote")

RevealVotes_execute(found, initiatorId) ==
    IF LoadError(found) # "" THEN Thrown(LoadError(found))
    ELSE IF found.s.currentVote = Null THEN Thrown("No active voting round")
    ELSE IF found.s.currentVote.status = "revealed" THEN Thrown("Votes are already revealed")
    ELSE IF ~Session_isVotingActive(found.s) /\ found.s.currentVote.status # "voting"
         THEN Thrown("No active voting round")
    ELSE IF ~CanAct(found.s, initiatorId)
         THEN Thrown("Only participants or session creator can reveal votes")
    ELSE LET res == Session_revealVotes(found.s)
         IN IF res.ok THEN Returned(res.s) ELSE Thrown("Cannot reveal votes")

FinishVoting_execute(found, initiatorId) ==
    IF LoadError(found) # "" THEN Thrown(LoadError(found))
    ELSE IF ~CanAct(found.s, initiatorId)
         THEN Thrown("Only participants or session creator can finish voting")
    ELSE LET res == Session_finishVoting(found.s)
         IN IF res.ok THEN Returned(res.s) ELSE Thrown("No active vote to finish")

\* newId is the "<role>-<uuid>" the use case generates
JoinSession_execute(found, role, newId) ==
    IF LoadError(found) # "" THEN Thrown(LoadError(found))
    ELSE Returned(Session_addParticipant(found.s, Participant_new(newId, role)))

\* the votes RevealVotes returns: those whose participant is still enrolled
RevealVotes_votes(sess) ==
    {[participantId |-> sess.currentVote.votes[i].key,
      value |-> sess.currentVote.votes[i].val.value] :
        i \in {j \in DOMAIN sess.currentVote.votes :
                 Map_has(sess.participants, sess.currentVote.votes[j].key)}}

\* the VoteResult list RevealVotes builds, in the order of the round's Map:
\* the votes whose participant findParticipant still finds
RevealVotes_results(sess) ==
    LET Enrolled(e) == Map_has(sess.participants, e.key)
        kept == SelectSeq(sess.currentVote.votes, Enrolled)
    IN [i \in DOMAIN kept |-> [participantId |-> kept[i].key, voteValue |-> kept[i].val.value]]

\* Number(value) for the labels of Scale.fibonacci(); every other label the
\* model uses ("?", "ABSTAIN", "COFFEE", "XL") gives NaN
FibonacciNumbers == <<1, 2, 3, 5, 8, 13, 21, 34, 55, 89>>

IsNumericLabel(v) == Scale_isValidValue(FibonacciValues, v) /\ ~VoteValue_isSpecialValue(v)

NumberOf(v) == FibonacciNumbers[CHOOSE i \in DOMAIN FibonacciValues : FibonacciValues[i] = v]

\* Number.toString for the numbers NumberOf returns
LabelOf(n) == FibonacciValues[CHOOSE i \in DOMAIN FibonacciNumbers : FibonacciNumbers[i] = n]

RECURSIVE SumSeq(_)
SumSeq(ns) == IF ns = <<>> THEN 0 ELSE Head(ns) + SumSeq(Tail(ns))

SetMin(S) == CHOOSE x \in S : \A y \in S : x <= y
SetMax(S) == CHOOSE x \in S : \A y \in S : x >= y

\* [...numericVotes].sort((a, b) => a - b)
RECURSIVE SortAsc(_)
SortAsc(ns) ==
    IF ns = <<>> THEN <<>>
    ELSE LET m == SetMin(SeqToSet(ns))
             j == CHOOSE i \in DOMAIN ns : ns[i] = m
         IN <<m>> \o SortAsc([i \in 1 .. (Len(ns) - 1) |-> IF i < j THEN ns[i] ELSE ns[i + 1]])

\* variant: the statistics with the numeric votes only counted in totalVotes
RevealVotes_calculateStatistics_numeric(votes) ==
    LET n == Len(SelectSeq(votes, LAMBDA v : IsNumericLabel(v.voteValue)))
    IN [totalVotes |-> n, sum |-> 0, numericCount |-> n, median2 |-> 0,
        mode |-> {}, distribution |-> [l \in {} |-> 0],
        minVote |-> "", maxVote |-> "", consensus |-> TRUE]

\* variant: consensus decided on the numeric votes only
RevealVotes_calculateStatistics_numericConsensus(votes) ==
    LET numeric == SelectSeq(votes, LAMBDA v : IsNumericLabel(v.voteValue))
    IN [totalVotes |-> Len(votes), sum |-> 0, numericCount |-> Len(numeric), median2 |-> 0,
        mode |-> {}, distribution |-> [l \in {} |-> 0],
        minVote |-> "", maxVote |-> "",
        consensus |-> Cardinality({numeric[i].voteValue : i \in DOMAIN numeric}) <= 1]

\* calculateStatistics.  The two quotients are kept as their terms: average
\* is sum / numericCount (0 when numericCount is 0) and median is
\* median2 / 2.  mode is the set of its labels, distribution a function of
\* the labels.
RevealVotes_calculateStatistics(votes) ==
    IF Len(votes) = 0
    THEN [totalVotes |-> 0, sum |-> 0, numericCount |-> 0, median2 |-> 0,
          mode |-> {}, distribution |-> [l \in {} |-> 0],
          minVote |-> "", maxVote |-> "", consensus |-> TRUE]
    ELSE LET allVoteValues == [i \in DOMAIN votes |-> votes[i].voteValue]
             numericLabels == SelectSeq(allVoteValues, IsNumericLabel)
             numericVotes == [i \in DOMAIN numericLabels |-> NumberOf(numericLabels[i])]
             sorted == SortAsc(numericVotes)
             k == Len(sorted)
             mid == k \div 2
             labels == SeqToSet(allVoteValues)
             distribution ==
                 [l \in labels |->
                     Cardinality({i \in DOMAIN allVoteValues : allVoteValues[i] = l})]
             maxFrequency == SetMax({distribution[l] : l \in labels})
         IN [totalVotes |-> Len(votes),
             sum |-> SumSeq(numericVotes),
             numericCount |-> k,
             median2 |-> IF k = 0 THEN 0
                         ELSE IF k % 2 = 0 THEN sorted[mid] + sorted[mid + 1]
                         ELSE 2 * sorted[mid + 1],
             mode |-> {l \in labels : distribution[l] = maxFrequency},
             distribution |-> distribution,
             minVote |-> IF k > 0 THEN LabelOf(sorted[1]) ELSE allVoteValues[1],
             maxVote |-> IF k > 0 THEN LabelOf(sorted[k]) ELSE allVoteValues[1],
             consensus |-> Cardinality(labels) <= 1]

-----------------------------------------------------------------------------
(* SocketManager.serializeSession: the snapshot sent in session:updated.   *)
(* The votes are part of it only when the round's status is revealed.      *)

\* variant: the snapshot with the votes in it whatever the status
SM_serializeSession_leaky(sess) ==
    [isActive |-> sess.active,
     participants |-> [i \in DOMAIN sess.participants |->
                         [id |-> sess.participants[i].val.id,
                          role |-> sess.participants[i].val.role,
                          isConnected |-> sess.participants[i].val.connected]],
     currentVote |->
        IF sess.currentVote = Null THEN Null
        ELSE [question |-> sess.currentVote.question,
              status |-> sess.currentVote.status,
              voteCount |-> Len(sess.currentVote.votes),
              hasVotes |-> TRUE,
              votes |-> [i \in DOMAIN sess.currentVote.votes |->
                           [participantId |-> sess.currentVote.votes[i].key,
                            value |-> sess.currentVote.votes[i].val.value]]],
     isVotingActive |-> Session_isVotingActive(sess)]

SM_serializeSession(sess) ==
    [isActive |-> sess.active,
     participants |-> [i \in DOMAIN sess.participants |->
                         [id |-> sess.participants[i].val.id,
                          role |-> sess.participants[i].val.role,
                          isConnected |-> sess.participants[i].val.connected]],
     currentVote |->
        IF sess.currentVote = Null THEN Null
        ELSE [question |-> sess.currentVote.question,
              status |-> sess.currentVote.status,
              voteCount |-> Len(sess.currentVote.votes),
              \* votes: undefined unless revealed
              hasVotes |-> sess.currentVote.status = "revealed",
              votes |-> IF sess.currentVote.status = "revealed"
                        THEN [i \in DOMAIN sess.currentVote.votes |->
                                [participantId |-> sess.currentVote.votes[i].key,
                                 value |-> sess.currentVote.votes[i].val.value]]
                        ELSE <<>>],
     isVotingActive |-> Session_isVotingActive(sess)]

\* the vote values a snapshot lets its reader see
SnapshotValues(snap) ==
    IF snap.currentVote = Null THEN {}
    ELSE IF ~snap.currentVote.hasVotes THEN {}
    ELSE SeqToSet(snap.currentVote.votes)

-----------------------------------------------------------------------------
(* Initial values of the three groups of variables                         *)

SessionIds == {"s1"}
Conns == {"c1", "c2"}

StatusOf(r) == IF r = Null THEN "none" ELSE r.status

\* the last call: the method, whether it returned (ok) or threw, its arguments,
\* whether it changed the object, and of the round r it found (Null: none)
\* the status, the number of votes and whether pid had a vote in it
Call(op, ok, pid, v, r, changed) ==
    [op |-> op, ok |-> ok, pid |-> pid, value |-> v, pre |-> StatusOf(r),
     changed |-> changed,
     count |-> IF r = Null THEN 0 ELSE Len(r.votes),
     had |-> IF r = Null THEN FALSE ELSE Map_has(r.votes, pid)]

InitRoundVars ==
    /\ round = VotingRound_new("q1")
    /\ rlast = Call("new", TRUE, UnknownId, "", Null, TRUE)

InitAggVars ==
    /\ agg = Session_new
    /\ alast = Call("new", TRUE, UnknownId, "", Null, TRUE)
    /\ removed = {}

InitSrvVars ==
    /\ store = [s \in SessionIds |-> Null]
    /\ created = {}
    /\ nextPid = 0
    /\ sockData = [c \in Conns |-> Null]
    /\ sockState = [c \in Conns |-> "new"]
    /\ rooms = [s \in SessionIds |-> {}]
    /\ sessionParticipants = [s \in {} |-> {}]
    /\ tasks = <<>>
    /\ done = Null
    /\ ops = 0

\* the client before the application mounts: no socket, no handler stored,
\* useState(null)
InitClientVars ==
    /\ socket = Null
    /\ sessionUpdateHandler = "null"
    /\ errorHandler = "null"
    /\ session = Null
    /\ srvGroup = {}
    /\ joinReq = {}
    /\ nextSock = 0
    /\ nextSid = 0
    /\ rx = Null
    /\ handled = 0
    /\ cops = 0

\* the keys of the sessions saved
StoreKeys == {"s1", "s2"}

\* an empty Redis database
InitRedisVars ==
    /\ redis = [k \in StoreKeys |-> Null]
    /\ idle = [k \in StoreKeys |-> -1]
    /\ now = 0

\* no Scale constructed yet
InitScaleVars ==
    /\ scale = Null
    /\ slast = Null

GwSessions == {"s1", "s2"}
GwSockets == {"k1", "k2"}

InitGwVars ==
    /\ gwState = [c \in GwSockets |-> "new"]
    /\ gwData = [c \in GwSockets |-> "none"]
    /\ gwRooms = [s \in GwSessions |-> {}]
    /\ gwTracked = [s \in GwSessions |-> {}]
    /\ gwRx = Null
    /\ gwOps = 0

Init ==
    /\ InitGwVars
    /\ InitRoundVars
    /\ InitAggVars
    /\ InitSrvVars
    /\ InitClientVars
    /\ InitRedisVars
    /\ InitScaleVars

-----------------------------------------------------------------------------
(* SpecRound: one VotingRound, any sequence of its methods                 *)

RoundSubmitVote(pid, v) ==
    LET res == VotingRound_submitVote(round, pid, v)
    IN /\ round' = res.r
       /\ rlast' = Call("submitVote", res.ok, pid, v, round, round' # round)
       /\ UNCHANGED <<gwVars, scaleVars, redisVars, clientVars, aggVars, srvVars>>

RoundReveal ==
    LET res == VotingRound_reveal(round)
    IN /\ round' = res.r
       /\ rlast' = Call("reveal", res.ok, UnknownId, "", round, round' # round)
       /\ UNCHANGED <<gwVars, scaleVars, redisVars, clientVars, aggVars, srvVars>>

RoundFinish ==
    LET res == VotingRound_finish(round)
    IN /\ round' = res.r
       /\ rlast' = Call("finish", res.ok, UnknownId, "", round, round' # round)
       /\ UNCHANGED <<gwVars, scaleVars, redisVars, clientVars, aggVars, srvVars>>

RoundRemoveVote(pid) ==
    /\ round' = VotingRound_removeVote(round, pid)
    /\ rlast' = Call("removeVote", TRUE, pid, "", round, round' # round)
    /\ UNCHANGED <<gwVars, scaleVars, redisVars, clientVars, aggVars, srvVars>>

NextRound ==
    \/ \E pid \in ParticipantIds, v \in ValidVotes : RoundSubmitVote(pid, v)
    \/ RoundReveal
    \/ RoundFinish
    \/ \E pid \in ParticipantIds : RoundRemoveVote(pid)

SpecRound == Init /\ [][NextRound]_vars

-----------------------------------------------------------------------------
(* SpecAgg: one Session, any sequence of its methods                       *)

\* the participants, questions and VoteValue objects the methods are called with
AggPids == {"p1", "p2"}
AggQuestions == {"q1", ""}
AggVotes == {v \in {"5", "?"} : VoteValue_valid(v, FibonacciValues)}

AggAddParticipant(pid, role) ==
    /\ agg' = Session_addParticipant(agg, Participant_new(pid, role))
    /\ alast' = Call("addParticipant", TRUE, pid, "", agg.currentVote, agg' # agg)
    /\ UNCHANGED <<gwVars, scaleVars, redisVars, clientVars, removed, roundVars, srvVars>>

AggRemoveParticipant(pid) ==
    /\ agg' = Session_removeParticipant(agg, pid)
    /\ alast' = Call("removeParticipant", TRUE, pid, "", agg.currentVote, agg' # agg)
    /\ removed' = IF agg.currentVote # Null /\ Map_has(agg.currentVote.votes, pid)
                  THEN removed \cup {pid} ELSE removed
    /\ UNCHANGED <<gwVars, scaleVars, redisVars, clientVars, roundVars, srvVars>>

AggStartVoting(q) ==
    LET res == Session_startVoting(agg, q)
    IN /\ agg' = res.s
       /\ alast' = Call("startVoting", res.ok, UnknownId, q, agg.currentVote, agg' # agg)
       /\ removed' = IF res.ok THEN {} ELSE removed
       /\ UNCHANGED <<gwVars, scaleVars, redisVars, clientVars, roundVars, srvVars>>

AggSubmitVote(pid, v) ==
    LET res == Session_submitVote(agg, pid, v)
    IN /\ agg' = res.s
       /\ alast' = Call("submitVote", res.ok, pid, v, agg.currentVote, agg' # agg)
       /\ removed' = IF res.ok THEN removed \ {pid} ELSE removed
       /\ UNCHANGED <<gwVars, scaleVars, redisVars, clientVars, roundVars, srvVars>>

AggRevealVotes ==
    LET res == Session_revealVotes(agg)
    IN /\ agg' = res.s
       /\ alast' = Call("revealVotes", res.ok, UnknownId, "", agg.currentVote, agg' # agg)
       /\ UNCHANGED <<gwVars, scaleVars, redisVars, clientVars, removed, roundVars, srvVars>>

\* n bounds the rounds that get finished: a call that finds no round, or a
\* round already finished, finishes none
AggFinishVotingUpTo(n) ==
    /\ (agg.currentVote # Null /\ ~VotingRound_isFinished(agg.currentVote))
          => Len(agg.voteHistory) < n
    /\ LET res == Session_finishVoting(agg)
       IN /\ agg' = res.s
          /\ alast' = Call("finishVoting", res.ok, UnknownId, "", agg.currentVote, agg' # agg)
          /\ removed' = IF res.ok THEN {} ELSE removed
    /\ UNCHANGED <<gwVars, scaleVars, redisVars, clientVars, roundVars, srvVars>>

AggFinishVoting == AggFinishVotingUpTo(MaxHistory)

AggDeactivate ==
    /\ agg' = Session_deactivate(agg)
    /\ alast' = Call("deactivate", TRUE, UnknownId, "", agg.currentVote, agg' # agg)
    /\ UNCHANGED <<gwVars, scaleVars, redisVars, clientVars, removed, roundVars, srvVars>>

AggActivate ==
    /\ agg' = Session_activate(agg)
    /\ alast' = Call("activate", TRUE, UnknownId, "", agg.currentVote, agg' # agg)
    /\ UNCHANGED <<gwVars, scaleVars, redisVars, clientVars, removed, roundVars, srvVars>>

NextAgg ==
    \/ \E pid \in AggPids, role \in Roles : AggAddParticipant(pid, role)
    \/ \E pid \in AggPids : AggRemoveParticipant(pid)
    \/ \E q \in AggQuestions : AggStartVoting(q)
    \/ \E pid \in AggPids \cup {UnknownId}, v \in AggVotes : AggSubmitVote(pid, v)
    \/ AggRevealVotes
    \/ AggFinishVoting
    \/ AggDeactivate
    \/ AggActivate

SpecAgg == Init /\ [][NextAgg]_vars

\* SpecHistory: one voter, two questions, and a history of up to MaxRounds
\* rounds
HistQuestions == {"q1", "q2"}

NextHistory ==
    \/ AggAddParticipant("p1", "participant")
    \/ AggRemoveParticipant("p1")
    \/ \E q \in HistQuestions : AggStartVoting(q)
    \/ AggSubmitVote("p1", "5")
    \/ AggRevealVotes
    \/ AggFinishVotingUpTo(MaxRounds)

SpecHistory == Init /\ [][NextHistory]_vars

-----------------------------------------------------------------------------
(* Spec: the server.  A handler runs on the event loop until it awaits a   *)
(* Redis command; the commands go over one connection, so Redis serves     *)
(* them, and the handlers resume, in the order they were issued.  A GET    *)
(* therefore reads the store as it is when the GET is issued.              *)

\* what the clients send
SrvQuestions == {"q1", ""}
SrvVotes == {"5", "XL", ""}
\* the participantId of a join without one
NoId == ""
\* the participant ids generated so far: clients learn an id from the
\* response that generated it
IssuedIds == {PidNames[i] : i \in 1 .. nextPid}
\* the ids a request can name: an issued one, or the creator's, which no
\* participant has
ClientIds == IssuedIds \cup {CreatorId}
\* socket ids in the order Socket.IO hands them out
ConnOrder == <<"c1", "c2">>

Task(kind, chan, conn, sid, pid, arg, pc) ==
    [kind |-> kind, chan |-> chan, conn |-> conn, sid |-> sid, pid |-> pid,
     arg |-> arg, pc |-> pc, loaded |-> store[sid], mem |-> Null,
     given |-> pid # NoId, actor |-> "none", saved |-> FALSE, absent |-> FALSE]

\* an emitted event: its name, the sockets it is delivered to, the snapshot
\* it carries (session:updated), the vote values it carries and the status
\* of the round of the session it was built from
Event(type, to, snap, values, status) ==
    [type |-> type, to |-> to, session |-> snap, values |-> values, status |-> status]

\* the handler that completed last; absent: the store held no record under
\* the id when the findById of getSession or of notifySessionUpdate was issued
Completed(t, ok, err, emits, status) ==
    [kind |-> t.kind, chan |-> t.chan, conn |-> t.conn, sid |-> t.sid,
     pid |-> t.pid, given |-> t.given, actor |-> t.actor, saved |-> t.saved,
     absent |-> t.absent,
     ok |-> ok, err |-> err, emits |-> emits, status |-> status]

RoleIn(sess, pid) ==
    IF sess = Null THEN "none"
    ELSE IF Session_findParticipant(sess, pid) = Null THEN "none"
    ELSE Session_findParticipant(sess, pid).role

\* Socket.IO delivers to the sockets of a room that are connected
Open(cs) == {c \in cs : sockState[c] = "open"}
io_to(rs, sid) == Open(rs[sid])
socket_to(rs, c, sid) == Open(rs[sid] \ {c})
socket_emit(c) == Open({c})

\* session:updated with the snapshot of a session just loaded
SnapshotEvent(to, sess) ==
    Event("session:updated", to, SM_serializeSession(sess),
          SnapshotValues(SM_serializeSession(sess)), StatusOf(sess.currentVote))

\* variant: error sent to every connected socket
ErrorEvent_toRoom(c) == Event("error", Open(Conns), Null, {}, "none")

ErrorEvent(c) == Event("error", socket_emit(c), Null, {}, "none")

\* sessionParticipants: a group exists only while it has a member
RegAdd(sp, sid, c) ==
    [s \in DOMAIN sp \cup {sid} |->
        IF s = sid THEN (IF sid \in DOMAIN sp THEN sp[sid] ELSE {}) \cup {c} ELSE sp[s]]

\* variant: the group entry kept when its last member leaves
RegDelete_keepEmpty(sp, sid, c) ==
    IF sid \notin DOMAIN sp THEN sp ELSE [sp EXCEPT ![sid] = @ \ {c}]

RegDelete(sp, sid, c) ==
    IF sid \notin DOMAIN sp THEN sp
    ELSE IF sp[sid] \ {c} = {} THEN [s \in DOMAIN sp \ {sid} |-> sp[s]]
    ELSE [sp EXCEPT ![sid] = @ \ {c}]

\* SessionController: 404 when the message includes "not found", else 400
\* (500 for joinSession)
Includes_not_found(msg) ==
    msg \in {"Session not found", "Participant not found or cannot vote"}

HttpStatus(kind, err) ==
    IF Includes_not_found(err) THEN 404 ELSE IF kind = "join" THEN 500 ELSE 400

\* variant: the participantId of the join ignored
HasParticipantId_never(pid) == FALSE

\* "if (data.participantId)" of handleSessionJoin
HasParticipantId(pid) == pid # NoId

CanBegin == ops < MaxOps /\ Len(tasks) < MaxTasks

\* joins in flight that will generate a participant id
PendingIds == Cardinality({i \in DOMAIN tasks : tasks[i].kind = "join" /\ ~tasks[i].given})

\* POST /sessions: CreateSession saves a new session under a fresh id
HttpCreateSession(sid) ==
    /\ sid \notin created
    /\ created' = created \cup {sid}
    /\ store' = [store EXCEPT ![sid] = Repo_serializeSession(Session_new)]
    /\ done' = Null
    /\ UNCHANGED <<gwVars, scaleVars, redisVars, clientVars, roundVars, aggVars, nextPid, sockData, sockState, rooms,
                   sessionParticipants, tasks, ops>>

\* the key's TTL runs out.  Every save sets the TTL anew (a day by default)
\* and a handler lasts milliseconds, so no handler is in flight when it does.
Expire(sid) ==
    /\ store[sid] # Null
    /\ tasks = <<>>
    /\ ops < MaxOps
    /\ ops' = ops + 1
    /\ store' = [store EXCEPT ![sid] = Null]
    /\ done' = Null
    /\ UNCHANGED <<gwVars, scaleVars, redisVars, clientVars, roundVars, aggVars, created, nextPid, sockData, sockState, rooms,
                   sessionParticipants, tasks>>

\* io.on('connection')
SocketConnect(c) ==
    /\ sockState[c] = "new"
    /\ \A i \in DOMAIN ConnOrder :
          (ConnOrder[i] = c /\ i > 1) => sockState[ConnOrder[i - 1]] # "new"
    /\ sockState' = [sockState EXCEPT ![c] = "open"]
    /\ done' = Null
    /\ UNCHANGED <<gwVars, scaleVars, redisVars, clientVars, roundVars, aggVars, store, created, nextPid, sockData, rooms,
                   sessionParticipants, tasks, ops>>

\* a handler that never awaits: what Completed reads of a Task
Sync(kind, c, sid, pid) ==
    [kind |-> kind, chan |-> "ws", conn |-> c, sid |-> sid, pid |-> pid,
     given |-> FALSE, actor |-> "none", saved |-> FALSE, absent |-> FALSE]

\* the socket closes: Socket.IO takes it out of its rooms, then handleDisconnect
SocketDisconnect(c) ==
    LET sd == sockData[c]
        rs == [s \in SessionIds |-> rooms[s] \ {c}]
    IN /\ sockState[c] = "open"
       /\ sockState' = [sockState EXCEPT ![c] = "closed"]
       /\ rooms' = rs
       /\ IF sd # Null
          THEN /\ sessionParticipants' = RegDelete(sessionParticipants, sd.sessionId, c)
               /\ done' = Completed(Sync("disconnect", c, sd.sessionId, sd.participantId),
                                    TRUE, "",
                                    {Event("participant:disconnected",
                                           socket_to(rs, c, sd.sessionId), Null, {}, "none")}, 0)
          ELSE /\ UNCHANGED sessionParticipants
               /\ done' = Completed(Sync("disconnect", c, "", NoId), TRUE, "", {}, 0)
       /\ UNCHANGED <<gwVars, scaleVars, redisVars, clientVars, roundVars, aggVars, store, created,
                      nextPid, sockData,
                      tasks, ops>>

\* 'session:leave'
WsSessionLeave(c) ==
    LET sd == sockData[c]
        rs == IF sd = Null THEN rooms
              ELSE [rooms EXCEPT ![sd.sessionId] = @ \ {c}]
    IN /\ sockState[c] = "open"
       /\ ops < MaxOps
       /\ ops' = ops + 1
       /\ rooms' = rs
       /\ IF sd # Null
          THEN /\ sessionParticipants' = RegDelete(sessionParticipants, sd.sessionId, c)
               /\ done' = Completed(Sync("leave", c, sd.sessionId, sd.participantId),
                                    TRUE, "",
                                    {Event("participant:left",
                                           socket_to(rs, c, sd.sessionId), Null, {}, "none")}, 0)
          ELSE /\ UNCHANGED sessionParticipants
               /\ done' = Completed(Sync("leave", c, "", NoId), TRUE, "", {}, 0)
       /\ sockData' = [sockData EXCEPT ![c] = Null]
       /\ UNCHANGED <<gwVars, scaleVars, redisVars, clientVars, roundVars, aggVars, store, created, nextPid, sockState, tasks>>

\* a voting handler of the gateway up to its first await: socket.data is
\* read, the command is validated and findById is issued
WsBegin(c, kind, arg, valid) ==
    LET sd == sockData[c]
    IN /\ sockState[c] = "open"
       /\ CanBegin
       /\ ops' = ops + 1
       /\ IF sd = Null
          THEN /\ done' = Completed(Sync(kind, c, "", NoId), FALSE,
                                    "Not joined to any session", {ErrorEvent(c)}, 0)
               /\ UNCHANGED tasks
          ELSE IF ~valid
          THEN /\ done' = Completed(Sync(kind, c, sd.sessionId, sd.participantId), FALSE,
                                    "Invalid command", {ErrorEvent(c)}, 0)
               /\ UNCHANGED tasks
          ELSE /\ tasks' = Append(tasks, Task(kind, "ws", c, sd.sessionId,
                                               sd.participantId, arg, "exec"))
               /\ done' = Null
       /\ UNCHANGED <<gwVars, scaleVars, redisVars, clientVars, roundVars, aggVars, store, created, nextPid, sockData, sockState,
                      rooms, sessionParticipants>>

\* 'voting:start'
WsVotingStart(c, q) == WsBegin(c, "start", q, StartVoting_validateCommand(q))

\* 'vote:submit'
WsVoteSubmit(c, v) == WsBegin(c, "submit", v, SubmitVote_validateCommand(v))

\* 'votes:reveal'
WsVotesReveal(c) == WsBegin(c, "reveal", "", TRUE)

\* 'session:join' up to the first findById
WsSessionJoin(c, sid, pid, role) ==
    /\ sockState[c] = "open"
    /\ sid \in created
    /\ CanBegin
    /\ pid # NoId => role = "participant"
    /\ pid = NoId => nextPid + PendingIds < MaxPids
    /\ ops' = ops + 1
    /\ tasks' = Append(tasks, Task("join", "ws", c, sid, pid, role, "joinCheck"))
    /\ done' = Null
    /\ UNCHANGED <<gwVars, scaleVars, redisVars, clientVars, roundVars, aggVars, store, created, nextPid, sockData, sockState,
                   rooms, sessionParticipants>>

\* an HTTP request up to the findById of its use case; a request whose body
\* fails the controller's or the use case's validation is answered 400
HttpBegin(kind, sid, pid, arg, valid) ==
    /\ sid \in created
    /\ CanBegin
    /\ ops' = ops + 1
    /\ IF ~valid
       THEN /\ done' = Completed([Sync(kind, "http", sid, pid) EXCEPT !.chan = "http"],
                                 FALSE, "Invalid command", {}, 400)
            /\ UNCHANGED tasks
       ELSE /\ tasks' = Append(tasks, Task(kind, "http", "http", sid, pid, arg, "exec"))
            /\ done' = Null
    /\ UNCHANGED <<gwVars, scaleVars, redisVars, clientVars, roundVars, aggVars, store, created, nextPid, sockData, sockState,
                   rooms, sessionParticipants>>

\* POST /sessions/:sessionId/join
HttpJoinSession(sid, role) ==
    /\ nextPid + PendingIds < MaxPids
    /\ HttpBegin("join", sid, NoId, role, TRUE)

\* POST /sessions/:sessionId/voting/start
HttpStartVoting(sid, pid, q) ==
    HttpBegin("start", sid, pid, q, StartVoting_validateCommand(q))

\* POST /sessions/:sessionId/voting/vote
HttpSubmitVote(sid, pid, v) ==
    HttpBegin("submit", sid, pid, v, SubmitVote_validateCommand(v))

\* POST /sessions/:sessionId/voting/reveal
HttpRevealVotes(sid, pid) == HttpBegin("reveal", sid, pid, "", TRUE)

\* the finish request: FinishVotingUseCase behind the controller
HttpFinishVoting(sid, pid) == HttpBegin("finish", sid, pid, "", TRUE)

\* GET /sessions/:sessionId up to its findById
HttpGetSession(sid) ==
    /\ CanBegin
    /\ ops' = ops + 1
    /\ tasks' = Append(tasks, [Task("get", "http", "http", sid, NoId, "", "get")
                                   EXCEPT !.absent = store[sid] = Null])
    /\ done' = Null
    /\ UNCHANGED <<gwVars, scaleVars, redisVars, clientVars, roundVars, aggVars, store, created, nextPid, sockData, sockState,
                   rooms, sessionParticipants>>

\* a call of the gateway's public notifySessionUpdate(sessionId), up to its
\* findById
NotifySessionUpdate(sid) ==
    /\ CanBegin
    /\ ops' = ops + 1
    /\ tasks' = Append(tasks, [Task("notify", "gateway", "gateway", sid, NoId, "", "notify")
                                   EXCEPT !.absent = store[sid] = Null])
    /\ done' = Null
    /\ UNCHANGED <<gwVars, scaleVars, redisVars, clientVars, roundVars, aggVars, store, created, nextPid, sockData, sockState,
                   rooms, sessionParticipants>>

\* a handler completes: it leaves the queue and becomes the last completed
Complete(t, ok, err, emits, status) ==
    /\ tasks' = Tail(tasks)
    /\ done' = Completed(t, ok, err, emits, status)

\* a handler issues its next Redis command and awaits the reply
Await(t) == /\ tasks' = Append(Tail(tasks), t)
            /\ done' = Null

\* the use case throws: the gateway emits error to the socket, the
\* controller answers with the status of the message
Reject(t, err) ==
    IF t.chan = "ws"
    THEN Complete(t, FALSE, err, {ErrorEvent(t.conn)}, 0)
    ELSE Complete(t, FALSE, err, {}, HttpStatus(t.kind, err))

\* first findById of handleSessionJoin replied
WsJoinCheck ==
    /\ tasks # <<>>
    /\ Head(tasks).pc = "joinCheck"
    /\ LET t == Head(tasks)
           found == Repo_findById(t.loaded)
       IN IF ~found.ok
          THEN /\ Reject(t, "Failed to deserialize session")
               /\ UNCHANGED <<sockData, rooms, sessionParticipants>>
          ELSE IF found.s = Null
          THEN /\ Reject(t, "Session not found")
               /\ UNCHANGED <<sockData, rooms, sessionParticipants>>
          ELSE IF ~found.s.active
          THEN /\ Reject(t, "Session is not active")
               /\ UNCHANGED <<sockData, rooms, sessionParticipants>>
          ELSE IF HasParticipantId(t.pid)
          THEN IF Session_findParticipant(found.s, t.pid) = Null
               THEN /\ Reject(t, "Participant not found in session")
                    /\ UNCHANGED <<sockData, rooms, sessionParticipants>>
               ELSE \* socket.data, socket.join, the registry, second findById
                    /\ sockData' = [sockData EXCEPT ![t.conn] =
                                       [sessionId |-> t.sid, participantId |-> t.pid]]
                    /\ rooms' = [rooms EXCEPT ![t.sid] = @ \cup {t.conn}]
                    /\ sessionParticipants' = RegAdd(sessionParticipants, t.sid, t.conn)
                    /\ Await([t EXCEPT !.pc = "joinEmit", !.loaded = store[t.sid]])
          ELSE \* joinSessionUseCase.execute up to its findById
               /\ Await([t EXCEPT !.pc = "exec", !.loaded = store[t.sid]])
               /\ UNCHANGED <<sockData, rooms, sessionParticipants>>
    /\ UNCHANGED <<gwVars, scaleVars, redisVars, clientVars, roundVars, aggVars, store, created, nextPid, sockState, ops>>

\* variant: the use case saves the session it loaded before it checks
UseCaseExec_saveFirst ==
    /\ tasks # <<>>
    /\ Head(tasks).pc = "exec"
    /\ LET t == Head(tasks)
           found == Repo_findById(t.loaded)
           newId == PidNames[nextPid + 1]
           res == IF t.kind = "start" THEN StartVoting_execute(found, t.arg, t.pid)
                  ELSE IF t.kind = "submit" THEN SubmitVote_execute(found, t.pid, t.arg)
                  ELSE IF t.kind = "reveal" THEN RevealVotes_execute(found, t.pid)
                  ELSE IF t.kind = "finish" THEN FinishVoting_execute(found, t.pid)
                  ELSE JoinSession_execute(found, t.arg, newId)
           who == IF t.kind = "join" /\ res.ok THEN newId ELSE t.pid
           role == IF found.ok THEN RoleIn(found.s, t.pid) ELSE "none"
       IN IF res.ok
          THEN /\ store' = [store EXCEPT ![t.sid] = Repo_serializeSession(res.s)]
               /\ nextPid' = IF t.kind = "join" THEN nextPid + 1 ELSE nextPid
               /\ Await([t EXCEPT !.pc = "saved", !.loaded = Null, !.mem = res.s,
                                  !.pid = who, !.actor = role, !.saved = TRUE])
          ELSE IF found.ok /\ found.s # Null
          THEN /\ store' = [store EXCEPT ![t.sid] = Repo_serializeSession(found.s)]
               /\ Reject([t EXCEPT !.actor = role, !.saved = TRUE], res.err)
               /\ UNCHANGED nextPid
          ELSE /\ Reject([t EXCEPT !.actor = role], res.err)
               /\ UNCHANGED <<store, nextPid>>
    /\ UNCHANGED <<gwVars, scaleVars, redisVars, clientVars, roundVars, aggVars, created, sockData, sockState, rooms,
                   sessionParticipants, ops>>

\* variant: the save keeps the stored participants the saved session lacks
UseCaseExec_mergeSave ==
    /\ tasks # <<>>
    /\ Head(tasks).pc = "exec"
    /\ LET t == Head(tasks)
           found == Repo_findById(t.loaded)
           newId == PidNames[nextPid + 1]
           res == IF t.kind = "start" THEN StartVoting_execute(found, t.arg, t.pid)
                  ELSE IF t.kind = "submit" THEN SubmitVote_execute(found, t.pid, t.arg)
                  ELSE IF t.kind = "reveal" THEN RevealVotes_execute(found, t.pid)
                  ELSE IF t.kind = "finish" THEN FinishVoting_execute(found, t.pid)
                  ELSE JoinSession_execute(found, t.arg, newId)
           who == IF t.kind = "join" /\ res.ok THEN newId ELSE t.pid
           role == IF found.ok THEN RoleIn(found.s, t.pid) ELSE "none"
       IN IF res.ok
          THEN /\ store' = [store EXCEPT ![t.sid] =
                              IF @ = Null THEN Repo_serializeSession(res.s)
                              ELSE [Repo_serializeSession(res.s) EXCEPT
                                       !.participants = @ \o SelectSeq(store[t.sid].participants,
                                           LAMBDA p : \A q \in DOMAIN res.s.participants :
                                                         res.s.participants[q].key # p.id)]]
               /\ nextPid' = IF t.kind = "join" THEN nextPid + 1 ELSE nextPid
               /\ Await([t EXCEPT !.pc = "saved", !.loaded = Null, !.mem = res.s,
                                  !.pid = who, !.actor = role, !.saved = TRUE])
          ELSE /\ Reject([t EXCEPT !.actor = role], res.err)
               /\ UNCHANGED <<store, nextPid>>
    /\ UNCHANGED <<gwVars, scaleVars, redisVars, clientVars, roundVars, aggVars, created, sockData, sockState, rooms,
                   sessionParticipants, ops>>

\* findById of a use case replied: the checks, the mutation and the save
UseCaseExec ==
    /\ tasks # <<>>
    /\ Head(tasks).pc = "exec"
    /\ LET t == Head(tasks)
           found == Repo_findById(t.loaded)
           newId == PidNames[nextPid + 1]
           res == IF t.kind = "start" THEN StartVoting_execute(found, t.arg, t.pid)
                  ELSE IF t.kind = "submit" THEN SubmitVote_execute(found, t.pid, t.arg)
                  ELSE IF t.kind = "reveal" THEN RevealVotes_execute(found, t.pid)
                  ELSE IF t.kind = "finish" THEN FinishVoting_execute(found, t.pid)
                  ELSE JoinSession_execute(found, t.arg, newId)
           who == IF t.kind = "join" /\ res.ok THEN newId ELSE t.pid
           role == IF found.ok THEN RoleIn(found.s, t.pid) ELSE "none"
       IN IF res.ok
          THEN /\ store' = [store EXCEPT ![t.sid] = Repo_serializeSession(res.s)]
               /\ nextPid' = IF t.kind = "join" THEN nextPid + 1 ELSE nextPid
               /\ Await([t EXCEPT !.pc = "saved", !.loaded = Null, !.mem = res.s,
                                  !.pid = who, !.actor = role, !.saved = TRUE])
          ELSE /\ Reject([t EXCEPT !.actor = role], res.err)
               /\ UNCHANGED <<store, nextPid>>
    /\ UNCHANGED <<gwVars, scaleVars, redisVars, clientVars, roundVars, aggVars, created, sockData, sockState, rooms,
                   sessionParticipants, ops>>

\* the save of a voting use case replied: the gateway emits its event
WsAfterSave ==
    /\ tasks # <<>>
    /\ Head(tasks).pc = "saved"
    /\ Head(tasks).chan = "ws"
    /\ Head(tasks).kind # "join"
    /\ LET t == Head(tasks)
           emits ==
             IF t.kind = "start"
             THEN {Event("voting:started", io_to(rooms, t.sid), Null, {},
                         StatusOf(t.mem.currentVote))}
             ELSE IF t.kind = "submit"
             THEN {Event("vote:submitted", socket_to(rooms, t.conn, t.sid), Null, {},
                         StatusOf(t.mem.currentVote)),
                   Event("vote:submitted", socket_emit(t.conn), Null,
                         {[participantId |-> t.pid, value |-> t.arg]},
                         StatusOf(t.mem.currentVote))}
             ELSE {Event("votes:revealed", io_to(rooms, t.sid), Null,
                         RevealVotes_votes(t.mem), StatusOf(t.mem.currentVote))}
       IN Complete(t, TRUE, "", emits, 0)
    /\ UNCHANGED <<gwVars, scaleVars, redisVars, clientVars, roundVars, aggVars, store, created, nextPid, sockData, sockState,
                   rooms, sessionParticipants, ops>>

\* the save of joinSessionUseCase replied: socket.data, socket.join, the
\* registry and the second findById of handleSessionJoin
WsJoinAttach ==
    /\ tasks # <<>>
    /\ Head(tasks).pc = "saved"
    /\ Head(tasks).chan = "ws"
    /\ Head(tasks).kind = "join"
    /\ LET t == Head(tasks)
       IN /\ sockData' = [sockData EXCEPT ![t.conn] =
                             [sessionId |-> t.sid, participantId |-> t.pid]]
          /\ rooms' = [rooms EXCEPT ![t.sid] = @ \cup {t.conn}]
          /\ sessionParticipants' = RegAdd(sessionParticipants, t.sid, t.conn)
          /\ Await([t EXCEPT !.pc = "joinEmit", !.loaded = store[t.sid], !.mem = Null])
    /\ UNCHANGED <<gwVars, scaleVars, redisVars, clientVars, roundVars, aggVars, store, created, nextPid, sockState, ops>>

\* variant: the snapshot of a join sent with socket.to, which leaves the
\* joining socket out
WsJoinEmit_toOthers ==
    /\ tasks # <<>>
    /\ Head(tasks).pc = "joinEmit"
    /\ LET t == Head(tasks)
           found == Repo_findById(t.loaded)
       IN IF ~found.ok
          THEN Complete(t, FALSE, "Failed to deserialize session", {ErrorEvent(t.conn)}, 0)
          ELSE IF found.s = Null
          THEN Complete(t, TRUE, "", {}, 0)
          ELSE Complete(t, TRUE, "",
                        {SnapshotEvent(socket_to(rooms, t.conn, t.sid), found.s)}, 0)
    /\ UNCHANGED <<gwVars, scaleVars, redisVars, clientVars, roundVars, aggVars, store, created, nextPid, sockData, sockState,
                   rooms, sessionParticipants, ops>>

\* the second findById of handleSessionJoin replied
WsJoinEmit ==
    /\ tasks # <<>>
    /\ Head(tasks).pc = "joinEmit"
    /\ LET t == Head(tasks)
           found == Repo_findById(t.loaded)
       IN IF ~found.ok
          THEN Complete(t, FALSE, "Failed to deserialize session", {ErrorEvent(t.conn)}, 0)
          ELSE IF found.s = Null
          THEN Complete(t, TRUE, "", {}, 0)
          ELSE Complete(t, TRUE, "", {SnapshotEvent(io_to(rooms, t.sid), found.s)}, 0)
    /\ UNCHANGED <<gwVars, scaleVars, redisVars, clientVars, roundVars, aggVars, store, created, nextPid, sockData, sockState,
                   rooms, sessionParticipants, ops>>

\* the save of a use case called by the controller replied: the response
\* is sent and notifySessionUpdate issues its findById
HttpAfterSave ==
    /\ tasks # <<>>
    /\ Head(tasks).pc = "saved"
    /\ Head(tasks).chan = "http"
    /\ LET t == Head(tasks)
       IN Await([t EXCEPT !.pc = "notify", !.loaded = store[t.sid], !.mem = Null])
    /\ UNCHANGED <<gwVars, scaleVars, redisVars, clientVars, roundVars, aggVars, store, created, nextPid, sockData, sockState,
                   rooms, sessionParticipants, ops>>

\* variant: a broadcast that finds no session raises an error to the group
NotifyEmit_raising ==
    /\ tasks # <<>>
    /\ Head(tasks).pc = "notify"
    /\ LET t == Head(tasks)
           found == Repo_findById(t.loaded)
           status == IF t.chan = "http" THEN 200 ELSE 0
       IN IF found.ok /\ found.s # Null
          THEN Complete(t, TRUE, "", {SnapshotEvent(io_to(rooms, t.sid), found.s)}, status)
          ELSE \* not found: a warning is logged; a throw of findById is caught
               \* and logged
               Complete(t, FALSE, "Session not found",
                        {ErrorEvent(c) : c \in io_to(rooms, t.sid)}, status)
    /\ UNCHANGED <<gwVars, scaleVars, redisVars, clientVars, roundVars, aggVars, store, created, nextPid, sockData, sockState,
                   rooms, sessionParticipants, ops>>

\* findById of notifySessionUpdate replied
NotifyEmit ==
    /\ tasks # <<>>
    /\ Head(tasks).pc = "notify"
    /\ LET t == Head(tasks)
           found == Repo_findById(t.loaded)
           status == IF t.chan = "http" THEN 200 ELSE 0
       IN IF found.ok /\ found.s # Null
          THEN Complete(t, TRUE, "", {SnapshotEvent(io_to(rooms, t.sid), found.s)}, status)
          ELSE \* not found: a warning is logged; a throw of findById is caught
               \* and logged
               Complete(t, TRUE, "", {}, status)
    /\ UNCHANGED <<gwVars, scaleVars, redisVars, clientVars, roundVars, aggVars, store, created, nextPid, sockData, sockState,
                   rooms, sessionParticipants, ops>>

\* findById of getSession replied
HttpGetReply ==
    /\ tasks # <<>>
    /\ Head(tasks).pc = "get"
    /\ LET t == Head(tasks)
           found == Repo_findById(t.loaded)
       IN IF ~found.ok
          THEN Complete(t, FALSE, "Failed to deserialize session", {}, 500)
          ELSE IF found.s = Null
          THEN Complete(t, FALSE, "Session not found", {}, 404)
          ELSE Complete(t, TRUE, "", {}, 200)
    /\ UNCHANGED <<gwVars, scaleVars, redisVars, clientVars, roundVars, aggVars, store, created, nextPid, sockData, sockState,
                   rooms, sessionParticipants, ops>>

Next ==
    \/ \E sid \in SessionIds : HttpCreateSession(sid)
    \/ \E sid \in SessionIds : Expire(sid)
    \/ \E c \in Conns : SocketConnect(c)
    \/ \E c \in Conns : SocketDisconnect(c)
    \/ \E c \in Conns : WsSessionLeave(c)
    \/ \E c \in Conns, sid \in SessionIds, pid \in IssuedIds \cup {UnknownId, NoId},
          role \in Roles : WsSessionJoin(c, sid, pid, role)
    \/ \E c \in Conns, q \in SrvQuestions : WsVotingStart(c, q)
    \/ \E c \in Conns, v \in SrvVotes : WsVoteSubmit(c, v)
    \/ \E c \in Conns : WsVotesReveal(c)
    \/ \E sid \in SessionIds, role \in Roles : HttpJoinSession(sid, role)
    \/ \E sid \in SessionIds, pid \in ClientIds, q \in SrvQuestions :
          HttpStartVoting(sid, pid, q)
    \/ \E sid \in SessionIds, pid \in ClientIds, v \in SrvVotes :
          HttpSubmitVote(sid, pid, v)
    \/ \E sid \in SessionIds, pid \in ClientIds : HttpRevealVotes(sid, pid)
    \/ \E sid \in SessionIds, pid \in ClientIds : HttpFinishVoting(sid, pid)
    \/ \E sid \in SessionIds : HttpGetSession(sid)
    \/ \E sid \in SessionIds : NotifySessionUpdate(sid)
    \/ WsJoinCheck
    \/ UseCaseExec
    \/ WsAfterSave
    \/ WsJoinAttach
    \/ WsJoinEmit
    \/ HttpAfterSave
    \/ NotifyEmit
    \/ HttpGetReply

Spec == Init /\ [][Next]_vars

-----------------------------------------------------------------------------
(* SpecClient: the browser side.  WebSocketService (one singleton) with     *)
(* the Socket it holds, the session state of the useSession hook, and of   *)
(* the server the group of the session and the joins in flight.  A Socket  *)
(* object reconnects by itself after its transport drops; the server then  *)
(* sees a new socket id.                                                   *)

\* a value that is undefined in a message
Undefined == [undefined |-> TRUE]

\* the callbacks given to onSessionUpdated and to onError
UpdateCallbacks == {"handleSessionUpdated", "otherUpdated"}
ErrorCallbacks == {"handleError", "otherError"}

\* the snapshots a session:updated message or a GET reply carries
ClientSnapshots ==
    {[participants |-> <<"p1">>, currentVote |-> "none"],
     [participants |-> <<"p1", "p2">>, currentVote |-> "none"],
     [participants |-> <<"p1", "p2">>, currentVote |-> "voting"]}

\* the data of a session:updated message
UpdateMessages == {[session |-> v] : v \in ClientSnapshots \cup {Undefined}}

\* JSON.parse(JSON.stringify(v)): a new object built member by member
JsonClone(v) ==
    [participants |-> [i \in 1..Len(v.participants) |-> v.participants[i]],
     currentVote |-> v.currentVote]

\* variant: the members of the snapshot are merged into the local session
handleSessionUpdated_merge(cur, data) ==
    IF data.session = Undefined \/ data.session = Null THEN cur
    ELSE IF cur = Null THEN JsonClone(data.session)
    ELSE LET known == {cur.participants[i] : i \in DOMAIN cur.participants}
             fresh == SelectSeq(data.session.participants, LAMBDA p : p \notin known)
         IN [participants |-> cur.participants \o fresh,
             currentVote |-> data.session.currentVote]

\* useSession.handleSessionUpdated: the state setSession leaves
handleSessionUpdated(cur, data) ==
    IF data.session = Undefined \/ data.session = Null THEN cur
    ELSE JsonClone(data.session)

\* the listeners of one event called in order of registration
RECURSIVE CallListeners(_, _, _)
CallListeners(hs, cur, data) ==
    IF hs = <<>> THEN cur
    ELSE CallListeners(Tail(hs),
                       IF Head(hs) = "handleSessionUpdated"
                       THEN handleSessionUpdated(cur, data) ELSE cur,
                       data)

\* the socket receives session:updated
Dispatch(sock, data) ==
    /\ session' = CallListeners(sock.onUpdated, session, data)
    /\ handled' = handled +
                  Cardinality({i \in DOMAIN sock.onUpdated :
                                  sock.onUpdated[i] = "handleSessionUpdated"})
    /\ rx' = data

\* "if (this.sessionUpdateHandler)": a handler that is null registers nothing
Listeners(h) == IF h = "null" THEN <<>> ELSE <<h>>

\* variant: connect() registers nothing on the socket it creates
io_new_bare(n) ==
    [obj |-> n, connected |-> FALSE, sid |-> 0, joined |-> FALSE,
     onUpdated |-> <<>>, onError |-> <<>>, onceConnect |-> 0]

\* io(url) followed by the registrations of connect(): the stored handlers
io_new(n) ==
    [obj |-> n, connected |-> FALSE, sid |-> 0, joined |-> FALSE,
     onUpdated |-> Listeners(sessionUpdateHandler),
     onError |-> Listeners(errorHandler), onceConnect |-> 0]

IsConnected == socket # Null /\ socket.connected

\* WebSocketService.connect()
Ws_connect ==
    /\ cops < MaxClientOps
    /\ cops' = cops + 1
    /\ IF IsConnected
       THEN UNCHANGED <<socket, nextSock>>
       ELSE \* a socket that is not connected is dropped with its listeners
            /\ nextSock < MaxSockets
            /\ nextSock' = nextSock + 1
            /\ socket' = io_new(nextSock + 1)
    /\ UNCHANGED <<sessionUpdateHandler, errorHandler, session, srvGroup, joinReq,
                   nextSid, rx, handled>>
    /\ UNCHANGED <<gwVars, scaleVars, redisVars, roundVars, aggVars, srvVars>>

\* WebSocketService.disconnect(); the server runs handleDisconnect
Ws_disconnect ==
    /\ cops < MaxClientOps
    /\ cops' = cops + 1
    /\ socket' = Null
    /\ srvGroup' = IF IsConnected THEN srvGroup \ {socket.sid} ELSE srvGroup
    /\ joinReq' = IF IsConnected THEN joinReq \ {socket.sid} ELSE joinReq
    /\ UNCHANGED <<sessionUpdateHandler, errorHandler, session, nextSock, nextSid,
                   rx, handled>>
    /\ UNCHANGED <<gwVars, scaleVars, redisVars, roundVars, aggVars, srvVars>>

\* WebSocketService.onSessionUpdated(callback)
Ws_onSessionUpdated(h) ==
    /\ cops < MaxClientOps
    /\ cops' = cops + 1
    /\ sessionUpdateHandler' = h
    /\ socket' = IF socket # Null THEN [socket EXCEPT !.onUpdated = <<h>>] ELSE socket
    /\ UNCHANGED <<errorHandler, session, srvGroup, joinReq, nextSock, nextSid, rx,
                   handled>>
    /\ UNCHANGED <<gwVars, scaleVars, redisVars, roundVars, aggVars, srvVars>>

\* WebSocketService.onError(callback)
Ws_onError(h) ==
    /\ cops < MaxClientOps
    /\ cops' = cops + 1
    /\ errorHandler' = h
    /\ socket' = IF socket # Null THEN [socket EXCEPT !.onError = <<h>>] ELSE socket
    /\ UNCHANGED <<sessionUpdateHandler, session, srvGroup, joinReq, nextSock,
                   nextSid, rx, handled>>
    /\ UNCHANGED <<gwVars, scaleVars, redisVars, roundVars, aggVars, srvVars>>

\* WebSocketService.joinSession(...): emit session:join now, or once on the
\* next connect event of this socket
Ws_joinSession ==
    /\ cops < MaxClientOps
    /\ cops' = cops + 1
    /\ IF IsConnected
       THEN /\ joinReq' = joinReq \cup {socket.sid}
            /\ UNCHANGED socket
       ELSE IF socket # Null
       THEN /\ socket' = [socket EXCEPT !.onceConnect = @ + 1]
            /\ UNCHANGED joinReq
       ELSE UNCHANGED <<socket, joinReq>>
    /\ UNCHANGED <<sessionUpdateHandler, errorHandler, session, srvGroup, nextSock,
                   nextSid, rx, handled>>
    /\ UNCHANGED <<gwVars, scaleVars, redisVars, roundVars, aggVars, srvVars>>

\* the transport of the socket comes up, the first time or again after a
\* drop: the server sees a new socket id, the connect event fires and the
\* once-listeners of joinSession emit and are gone
TransportConnect ==
    /\ socket # Null
    /\ ~socket.connected
    /\ nextSid' = nextSid + 1
    /\ socket' = [socket EXCEPT !.connected = TRUE, !.sid = nextSid + 1,
                                !.onceConnect = 0]
    /\ joinReq' = IF socket.onceConnect > 0 THEN joinReq \cup {nextSid + 1} ELSE joinReq
    /\ UNCHANGED <<sessionUpdateHandler, errorHandler, session, srvGroup, nextSock,
                   rx, handled, cops>>
    /\ UNCHANGED <<gwVars, scaleVars, redisVars, roundVars, aggVars, srvVars>>

\* the transport drops; the server runs handleDisconnect for the socket id
TransportDrop ==
    /\ cops < MaxClientOps
    /\ cops' = cops + 1
    /\ IsConnected
    /\ socket' = [socket EXCEPT !.connected = FALSE, !.sid = 0]
    /\ srvGroup' = srvGroup \ {socket.sid}
    /\ joinReq' = joinReq \ {socket.sid}
    /\ UNCHANGED <<sessionUpdateHandler, errorHandler, session, nextSock, nextSid,
                   rx, handled>>
    /\ UNCHANGED <<gwVars, scaleVars, redisVars, roundVars, aggVars, srvVars>>

\* handleSessionJoin for a session:join of the client: the socket joins the
\* room and the registry, and the room is sent the current session
ServerHandleJoin(s) ==
    /\ IsConnected
    /\ socket.sid \in joinReq
    /\ joinReq' = joinReq \ {socket.sid}
    /\ srvGroup' = srvGroup \cup {socket.sid}
    /\ socket' = [socket EXCEPT !.joined = TRUE]
    /\ Dispatch(socket, [session |-> s])
    /\ UNCHANGED <<sessionUpdateHandler, errorHandler, nextSock, nextSid, cops>>
    /\ UNCHANGED <<gwVars, scaleVars, redisVars, roundVars, aggVars, srvVars>>

\* the server emits session:updated to the room of the session
ServerBroadcast(data) ==
    /\ cops < MaxClientOps
    /\ cops' = cops + 1
    /\ IF IsConnected /\ socket.sid \in srvGroup
       THEN Dispatch(socket, data)
       ELSE UNCHANGED <<session, handled, rx>>
    /\ UNCHANGED <<socket, sessionUpdateHandler, errorHandler, srvGroup, joinReq,
                   nextSock, nextSid>>
    /\ UNCHANGED <<gwVars, scaleVars, redisVars, roundVars, aggVars, srvVars>>

\* the reply of ApiService.getSession in loadSession and in joinSession
Hook_getSessionReply(s) ==
    /\ cops < MaxClientOps
    /\ cops' = cops + 1
    /\ session' = JsonClone(s)
    /\ UNCHANGED <<socket, sessionUpdateHandler, errorHandler, srvGroup, joinReq,
                   nextSock, nextSid, rx, handled>>
    /\ UNCHANGED <<gwVars, scaleVars, redisVars, roundVars, aggVars, srvVars>>

NextClient ==
    \/ Ws_connect
    \/ Ws_disconnect
    \/ \E h \in UpdateCallbacks : Ws_onSessionUpdated(h)
    \/ \E h \in ErrorCallbacks : Ws_onError(h)
    \/ Ws_joinSession
    \/ TransportConnect
    \/ TransportDrop
    \/ \E s \in ClientSnapshots : ServerHandleJoin(s)
    \/ \E data \in UpdateMessages : ServerBroadcast(data)
    \/ \E s \in ClientSnapshots : Hook_getSessionReply(s)

SpecClient == Init /\ [][NextClient]_vars

\* what happens without the user: the transport reconnects and the server
\* handles the joins it receives
SpecClientLive ==
    /\ Init
    /\ [][NextClient]_vars
    /\ WF_vars(TransportConnect)
    /\ WF_vars(\E s \in ClientSnapshots : ServerHandleJoin(s))

-----------------------------------------------------------------------------
(* SpecStore: RedisSessionRepository over Redis, with time.  A key set with *)
(* EX lives for that many units of time after the SET and is gone then.     *)

\* this.defaultTtl (86400 s by default), in units of time of the model
DefaultTtl == 3

\* the serialized sessions saved
StoreData == {"d1", "d2"}

\* variant: SET key value KEEPTTL, the expiry of an existing key kept
Redis_set_KEEPTTL(entry, data, ttl) ==
    IF entry = Null THEN [data |-> data, ttl |-> ttl]
    ELSE [data |-> data, ttl |-> entry.ttl]

\* SET key value EX ttl
Redis_set_EX(entry, data, ttl) == [data |-> data, ttl |-> ttl]

\* RedisSessionRepository.save
Store_save(k, data) ==
    /\ redis' = [redis EXCEPT ![k] = Redis_set_EX(@, data, DefaultTtl)]
    /\ idle' = [idle EXCEPT ![k] = 0]
    /\ UNCHANGED now
    /\ UNCHANGED <<gwVars, scaleVars, clientVars, roundVars, aggVars, srvVars>>

\* one unit of time passes: Redis removes the keys whose time is up
Store_tick ==
    /\ now < MaxTime
    /\ now' = now + 1
    /\ redis' = [k \in StoreKeys |->
                    IF redis[k] = Null THEN Null
                    ELSE IF redis[k].ttl = 1 THEN Null
                    ELSE [redis[k] EXCEPT !.ttl = @ - 1]]
    /\ idle' = [k \in StoreKeys |->
                   IF idle[k] = -1 \/ idle[k] = DefaultTtl THEN idle[k] ELSE idle[k] + 1]
    /\ UNCHANGED <<gwVars, scaleVars, clientVars, roundVars, aggVars, srvVars>>

NextStore ==
    \/ \E k \in StoreKeys, d \in StoreData : Store_save(k, d)
    \/ Store_tick

SpecStore == Init /\ [][NextStore]_vars

-----------------------------------------------------------------------------
(* SpecScale: a Scale is constructed by a factory or by Scale.custom and    *)
(* asked about values                                                      *)

TshirtValues == <<"XS", "S", "M", "L", "XL", "XXL">>

\* the strings given as scale values and asked about
ScaleStrings == {"1", "2", "XL", "?", ""}

\* the lists given to Scale.custom
ScaleLists == UNION {[1..n -> ScaleStrings] : n \in 0..MaxScaleLen}

\* Scale.validateValues: at least two values, none empty, no duplicates
Scale_validateValues(values) ==
    /\ Len(values) >= 2
    /\ \A i \in DOMAIN values : values[i] # ""
    /\ \A i, j \in DOMAIN values : i # j => values[i] # values[j]

\* Scale.fibonacci(), Scale.tshirt()
ScaleFactory(values) ==
    /\ scale' = values
    /\ slast' = Null
    /\ UNCHANGED <<gwVars, redisVars, clientVars, roundVars, aggVars, srvVars>>

\* Scale.custom(name, values): the constructor throws on invalid values
ScaleCustom(values) ==
    /\ Scale_validateValues(values)
    /\ scale' = values
    /\ slast' = Null
    /\ UNCHANGED <<gwVars, redisVars, clientVars, roundVars, aggVars, srvVars>>

\* scale.isValidValue(v)
ScaleIsValidValue(v) ==
    /\ scale # Null
    /\ slast' = [value |-> v, result |-> Scale_isValidValue(scale, v)]
    /\ UNCHANGED scale
    /\ UNCHANGED <<gwVars, redisVars, clientVars, roundVars, aggVars, srvVars>>

NextScale ==
    \/ \E values \in {FibonacciValues, TshirtValues} : ScaleFactory(values)
    \/ \E values \in ScaleLists : ScaleCustom(values)
    \/ \E v \in ScaleStrings \cup {"ABSTAIN"} : ScaleIsValidValue(v)

SpecScale == Init /\ [][NextScale]_vars

-----------------------------------------------------------------------------
(* SpecGateway: the rooms and the sessionParticipants map of the gateway,   *)
(* two sockets and two sessions; the handshake checks of a join have passed *)

\* io.to(sid).emit and socket.to(sid).emit: the sockets the emit reaches
GwEmit(sid, to) == [sid |-> sid, to |-> to]

\* a client connects: a socket with empty socket.data
GwConnect(c) ==
    /\ gwOps < MaxGwOps
    /\ gwState[c] = "new"
    /\ gwState' = [gwState EXCEPT ![c] = "open"]
    /\ gwOps' = gwOps + 1
    /\ UNCHANGED <<gwData, gwRooms, gwTracked, gwRx>>
    /\ UNCHANGED <<scaleVars, redisVars, clientVars, roundVars, aggVars, srvVars>>

\* handleSessionJoin after its checks: store socket.data, join the room,
\* track the socket id, emit session:updated to the room
GwSessionJoin(c, sid) ==
    /\ gwOps < MaxGwOps
    /\ gwState[c] = "open"
    /\ gwData' = [gwData EXCEPT ![c] = sid]
    /\ gwRooms' = [gwRooms EXCEPT ![sid] = @ \cup {c}]
    /\ gwTracked' = [gwTracked EXCEPT ![sid] = @ \cup {c}]
    /\ gwRx' = GwEmit(sid, gwRooms'[sid])
    /\ gwOps' = gwOps + 1
    /\ UNCHANGED gwState
    /\ UNCHANGED <<scaleVars, redisVars, clientVars, roundVars, aggVars, srvVars>>

\* handleSessionLeave: leave the room of socket.data.sessionId, untrack,
\* tell the others, clear socket.data
GwSessionLeave(c) ==
    /\ gwOps < MaxGwOps
    /\ gwState[c] = "open"
    /\ IF gwData[c] # "none"
       THEN /\ gwRooms' = [gwRooms EXCEPT ![gwData[c]] = @ \ {c}]
            /\ gwTracked' = [gwTracked EXCEPT ![gwData[c]] = @ \ {c}]
            /\ gwRx' = GwEmit(gwData[c], gwRooms'[gwData[c]])
       ELSE UNCHANGED <<gwRooms, gwTracked, gwRx>>
    /\ gwData' = [gwData EXCEPT ![c] = "none"]
    /\ gwOps' = gwOps + 1
    /\ UNCHANGED gwState
    /\ UNCHANGED <<scaleVars, redisVars, clientVars, roundVars, aggVars, srvVars>>

\* the socket closes: Socket.IO takes it out of every room, then
\* handleDisconnect untracks it from socket.data.sessionId and tells the others
GwDisconnect(c) ==
    /\ gwOps < MaxGwOps
    /\ gwState[c] = "open"
    /\ gwState' = [gwState EXCEPT ![c] = "closed"]
    /\ gwRooms' = [s \in GwSessions |-> gwRooms[s] \ {c}]
    /\ IF gwData[c] # "none"
       THEN /\ gwTracked' = [gwTracked EXCEPT ![gwData[c]] = @ \ {c}]
            /\ gwRx' = GwEmit(gwData[c], gwRooms'[gwData[c]])
       ELSE UNCHANGED <<gwTracked, gwRx>>
    /\ gwOps' = gwOps + 1
    /\ UNCHANGED gwData
    /\ UNCHANGED <<scaleVars, redisVars, clientVars, roundVars, aggVars, srvVars>>

\* notifySessionUpdate, or a voting handler: an emit to the room of a session
GwBroadcast(sid) ==
    /\ gwOps < MaxGwOps
    /\ gwRx' = GwEmit(sid, gwRooms[sid])
    /\ gwOps' = gwOps + 1
    /\ UNCHANGED <<gwState, gwData, gwRooms, gwTracked>>
    /\ UNCHANGED <<scaleVars, redisVars, clientVars, roundVars, aggVars, srvVars>>

NextGateway ==
    \/ \E c \in GwSockets : GwConnect(c)
    \/ \E c \in GwSockets, sid \in GwSessions : GwSessionJoin(c, sid)
    \/ \E c \in GwSockets : GwSessionLeave(c)
    \/ \E c \in GwSockets : GwDisconnect(c)
    \/ \E sid \in GwSessions : GwBroadcast(sid)

SpecGateway == Init /\ [][NextGateway]_vars

-----------------------------------------------------------------------------
(* Claims about VotingRound (SpecRound)                                    *)

\* C4: a submitVote on a round that is revealed or finished throws and
\* leaves the round, its votes included, as it was.
C4_SubmitAfterRevealFails ==
    (rlast.op = "submitVote" /\ rlast.pre \in {"revealed", "finished"})
        => (~rlast.ok /\ ~rlast.changed)

\* a submitVote was attempted on a finished round that holds a vote
C4_Witness ==
    /\ rlast.op = "submitVote"
    /\ rlast.pre = "finished"
    /\ Len(round.votes) > 0

\* C6: finish() on a round in voting status leaves the round finished with
\* every stored vote marked revealed.
C6_FinishRevealsVotes ==
    (rlast.op = "finish" /\ rlast.pre = "voting")
        => /\ round.status = "finished"
           /\ \A i \in DOMAIN round.votes : round.votes[i].val.revealed

-----------------------------------------------------------------------------
(* Claims about Session (SpecAgg)                                          *)

\* C5: startVoting called while the current round is voting or revealed
\* throws and leaves the session as it was.
C5_StartFailsOnUnfinishedRound ==
    (alast.op = "startVoting" /\ alast.pre \in {"voting", "revealed"})
        => (~alast.ok /\ ~alast.changed)

-----------------------------------------------------------------------------
(* Claims about the server (Spec)                                          *)

\* the connected sockets registered in the group of a session
Group(sid) ==
    IF sid \in DOMAIN sessionParticipants THEN Open(sessionParticipants[sid]) ELSE {}

Mutations == {"join", "start", "submit", "reveal", "finish"}

Delivered(type, c) == \E e \in done.emits : e.type = type /\ c \in e.to

\* C1: when a handler that saved a mutation of a session completes, every
\* connected socket of the session's group has been sent session:updated
\* with a snapshot of the session.
C1_MutationBroadcastsSnapshot ==
    (done # Null /\ done.ok /\ done.saved /\ done.kind \in Mutations)
        => \A c \in Group(done.sid) :
              \E e \in done.emits :
                 e.type = "session:updated" /\ c \in e.to /\ e.session # Null

\* C2: snapshots and saved mutations correspond one to one: a completing
\* handler has sent session:updated to a connected socket of the group
\* exactly when it saved a mutation.
C2_OneSnapshotPerSavedMutation ==
    (done # Null /\ done.kind \in Mutations)
        => \A c \in Group(done.sid) :
              (done.ok /\ done.saved) <=> Delivered("session:updated", c)

\* the socket a vote value may be shown to: the one that submitted it, or
\* one attached to the voter
OwnConnection(c, v) ==
    \/ done.kind = "submit" /\ done.chan = "ws" /\ c = done.conn
    \/ sockData[c] # Null /\ sockData[c].participantId = v.participantId

\* C3: an event built from a session whose round is in voting status
\* carries a vote value to no socket but the voter's own.
C3_VotesHiddenWhileVoting ==
    done # Null
        => \A e \in done.emits : \A c \in e.to : \A v \in e.values :
              e.status = "voting" => OwnConnection(c, v)

\* a vote was submitted and another socket of the room was told so
C3_Witness ==
    /\ done # Null
    /\ done.kind = "submit"
    /\ done.ok
    /\ \E e \in done.emits : \E c \in e.to :
          e.type = "vote:submitted" /\ e.status = "voting" /\ c # done.conn

\* C7: the session a handler has just saved is the session findById makes
\* of what was stored, in every field.
C7_SaveLoadRoundTrip ==
    \A i \in DOMAIN tasks :
       tasks[i].pc = "saved"
          => Repo_findById(Repo_serializeSession(tasks[i].mem))
                = [ok |-> TRUE, s |-> tasks[i].mem]

\* C8: a mutation requested over a socket and rejected saved nothing and
\* emitted only error, to that socket only.
C8_RejectionIsPrivate ==
    (done # Null /\ done.chan = "ws" /\ done.kind \in Mutations /\ ~done.ok)
        => /\ ~done.saved
           /\ \A e \in done.emits : e.type = "error" /\ e.to \subseteq {done.conn}
           /\ Delivered("error", done.conn) \/ sockState[done.conn] # "open"

\* a voting request of a socket was rejected while another connected socket
\* is in the session's group
C8_Witness ==
    /\ done # Null
    /\ done.chan = "ws"
    /\ done.kind \in {"start", "submit", "reveal"}
    /\ ~done.ok
    /\ Group(done.sid) \ {done.conn} # {}

\* C9: a join that supplies a participant id saves nothing, and the stored
\* session never has more participants than ids were generated, nor the same
\* id twice.
C9_KnownIdJoinCreatesNothing ==
    /\ (done # Null /\ done.kind = "join" /\ done.given) => ~done.saved
    /\ \A sid \in SessionIds :
          store[sid] # Null
             => /\ Len(store[sid].participants) <= nextPid
                /\ \A i, j \in DOMAIN store[sid].participants :
                      store[sid].participants[i].id = store[sid].participants[j].id => i = j

\* a socket rejoined with a known id after another socket of the same
\* participant had disconnected
C9_Witness ==
    /\ done # Null
    /\ done.kind = "join"
    /\ done.given
    /\ done.ok
    /\ \E c \in Conns : c # done.conn /\ sockState[c] = "closed" /\ sockData[c] # Null
          /\ sockData[c].participantId = done.pid

Pending(t) == t.pc = "exec"

\* C11: a reveal requested with the creator's id on an active session whose
\* round is in voting status is accepted and leaves the round revealed,
\* whether or not that id is enrolled as a participant.
C11_CreatorMayReveal ==
    \A i \in DOMAIN tasks :
       LET t == tasks[i]
           found == Repo_findById(t.loaded)
       IN (/\ Pending(t)
           /\ t.kind = "reveal"
           /\ t.pid = CreatorId
           /\ LoadError(found) = ""
           /\ Session_isVotingActive(found.s))
             => /\ RevealVotes_execute(found, t.pid).ok
                /\ RevealVotes_execute(found, t.pid).s.currentVote.status = "revealed"

\* C12: the messages of one connection are handled one after the other: no
\* connection has two of its handlers in flight, the later one loading or
\* saving before the earlier one has completed.
C12_OneHandlerPerConnection ==
    \A i, j \in DOMAIN tasks :
       (i < j /\ tasks[i].chan = "ws" /\ tasks[j].chan = "ws")
          => tasks[i].conn # tasks[j].conn

-----------------------------------------------------------------------------
(* Further claims about Session (SpecAgg)                                  *)

\* the methods of Session that change its participants or its rounds
Mutators ==
    {"addParticipant", "removeParticipant", "startVoting", "submitVote",
     "revealVotes", "finishVoting"}

\* C13: a mutator called on a session whose active flag is false throws and
\* leaves the session as it was.  (No mutator touches the flag, so the flag
\* after the call is the flag the call found.)
C13_InactiveRejectsMutators ==
    (alast.op \in Mutators /\ ~agg.active)
        => (~alast.ok /\ ~alast.changed)

-----------------------------------------------------------------------------
(* Further claims about VotingRound (SpecRound)                            *)

\* C14: a round holds at most one vote per participant, and a submitVote
\* that succeeds leaves the participant's vote with the value submitted and
\* the number of votes one higher if the participant had no vote, unchanged
\* if the participant had one.
C14_OneVotePerParticipant ==
    /\ \A i, j \in DOMAIN round.votes :
          round.votes[i].key = round.votes[j].key => i = j
    /\ (rlast.op = "submitVote" /\ rlast.ok)
          => /\ Map_has(round.votes, rlast.pid)
             /\ Map_get(round.votes, rlast.pid).value = rlast.value
             /\ Len(round.votes) = rlast.count + (IF rlast.had THEN 0 ELSE 1)

\* a participant who had voted submitted another value while a second
\* participant's vote was in the round
C14_Witness ==
    /\ rlast.op = "submitVote"
    /\ rlast.ok
    /\ rlast.had
    /\ rlast.changed
    /\ Len(round.votes) = 2

-----------------------------------------------------------------------------
(* Further claims about Session (SpecAgg), continued                       *)

\* C15: submitVote for an id that no participant of the session has, or
\* that a spectator has, throws and records nothing: the session, its
\* current round included, is as it was.  (submitVote leaves the
\* participants alone, so the role after the call is the role it found.)
C15_NonVoterSubmitFails ==
    (alast.op = "submitVote" /\ RoleIn(agg, alast.pid) # "participant")
        => (~alast.ok /\ ~alast.changed)

\* a spectator called submitVote while a round was in voting status with
\* another participant's vote in it
C15_Witness ==
    /\ alast.op = "submitVote"
    /\ RoleIn(agg, alast.pid) = "spectator"
    /\ alast.pre = "voting"
    /\ alast.count = 1
    /\ ~alast.had

-----------------------------------------------------------------------------
(* Further claims about the server (Spec)                                  *)

\* C16: every event the server delivers to a socket is session:updated or
\* error; no other event name reaches a client.
C16_OnlySnapshotsAndErrors ==
    done # Null
        => \A e \in done.emits :
              e.to # {} => e.type \in {"session:updated", "error"}

-----------------------------------------------------------------------------
(* Further claims about Session (SpecAgg): finishing                       *)

\* C18: however often finishVoting is called, a round enters the history
\* once: a call that finds a round not yet finished makes the history one
\* longer, and a call that finds no round, or a round already finished,
\* leaves the history as it is.
C18_FinishAddsRoundOnce ==
    [][alast'.op = "finishVoting"
          => IF agg.currentVote # Null /\ ~VotingRound_isFinished(agg.currentVote)
             THEN Len(agg'.voteHistory) = Len(agg.voteHistory) + 1
             ELSE agg'.voteHistory = agg.voteHistory]_vars

\* finishVoting was called again after the round, with a vote in it, had
\* been finished: the call threw and the history holds the round
C18_Witness ==
    /\ alast.op = "finishVoting"
    /\ ~alast.ok
    /\ alast.pre = "none"
    /\ Len(agg.voteHistory) = 1
    /\ Len(agg.voteHistory[1].votes) > 0

\* what a round holds apart from its status and the reveal flags of its
\* votes: the question and, in order, who voted what
RoundContent(r) ==
    [question |-> r.question,
     votes |-> [i \in DOMAIN r.votes |->
                  [participantId |-> r.votes[i].key, value |-> r.votes[i].val.value]]]

-----------------------------------------------------------------------------
(* Further claims about VotingRound (SpecRound): reveal                    *)

\* C20: reveal() on a round in voting status returns and leaves the round
\* revealed with every vote it held marked revealed; on a round in any other
\* status it throws and leaves the round as it was.
C20_RevealOnlyFromVoting ==
    rlast.op = "reveal"
        => IF rlast.pre = "voting"
           THEN /\ rlast.ok
                /\ round.status = "revealed"
                /\ Len(round.votes) = rlast.count
                /\ \A i \in DOMAIN round.votes : round.votes[i].val.revealed
           ELSE ~rlast.ok /\ ~rlast.changed

\* reveal() was called on a round in voting status that held two votes
C20_Witness ==
    /\ rlast.op = "reveal"
    /\ rlast.pre = "voting"
    /\ rlast.ok
    /\ Len(round.votes) = 2

-----------------------------------------------------------------------------
(* Claims about the statistics of a reveal (SpecAgg): the result RevealVotes *)
(* builds from the session revealVotes() has just been called on           *)

\* C21: the statistics of a reveal have totalVotes equal to the number of
\* votes the round held when it was revealed, zero included.
C21_TotalVotesIsVoteCount ==
    (alast.op = "revealVotes" /\ alast.ok)
        => RevealVotes_calculateStatistics(RevealVotes_results(agg)).totalVotes
              = alast.count

\* a round holding two votes, one of them a special value, was revealed
C21_Witness ==
    /\ alast.op = "revealVotes"
    /\ alast.ok
    /\ alast.count = 2
    /\ \E i \in DOMAIN agg.currentVote.votes :
          VoteValue_isSpecialValue(agg.currentVote.votes[i].val.value)

\* C22: the consensus of a reveal is true exactly when the votes of the
\* round all carry one label, special values counted as labels; a round
\* without votes is a consensus.
C22_ConsensusIffOneLabel ==
    (alast.op = "revealVotes" /\ alast.ok)
        => LET votes == agg.currentVote.votes
               stats == RevealVotes_calculateStatistics(RevealVotes_results(agg))
           IN stats.consensus
                 <=> \A i, j \in DOMAIN votes : votes[i].val.value = votes[j].val.value

\* a round was revealed in which one participant voted a number and the
\* other a special value
C22_Witness ==
    /\ alast.op = "revealVotes"
    /\ alast.ok
    /\ alast.count = 2
    /\ \E i, j \in DOMAIN agg.currentVote.votes :
          /\ VoteValue_isSpecialValue(agg.currentVote.votes[i].val.value)
          /\ ~VoteValue_isSpecialValue(agg.currentVote.votes[j].val.value)

-----------------------------------------------------------------------------
(* Claims about Session (SpecAgg): removing a participant                  *)

\* the entries of a Map other than the one of key k, in their order
Without(m, k) == SelectSeq(m, LAMBDA e : e.key # k)

\* C23: removeParticipant(id) returns, and afterwards the participants are
\* those there were without id, the votes of the current round (if there is
\* one) are those there were without id's, and the rest of the session is as
\* it was; for an id that is no participant the whole session is as it was.
C23_RemoveParticipantFrame ==
    [][alast'.op = "removeParticipant"
          => /\ alast'.ok
             /\ agg'.participants = Without(agg.participants, alast'.pid)
             /\ IF agg.currentVote = Null THEN agg'.currentVote = Null
                ELSE agg'.currentVote =
                        [agg.currentVote EXCEPT
                            !.votes = Without(agg.currentVote.votes, alast'.pid)]
             /\ agg'.voteHistory = agg.voteHistory
             /\ agg'.active = agg.active
             /\ ~Map_has(agg.participants, alast'.pid) => agg' = agg]_vars

\* a participant who had voted was removed while another participant and
\* that participant's vote stayed
C23_Witness ==
    /\ alast.op = "removeParticipant"
    /\ alast.had
    /\ alast.count = 2
    /\ Len(agg.participants) = 1
    /\ Len(agg.currentVote.votes) = 1

\* C24: the vote list and the statistics of a reveal hold no vote of a
\* participant who was removed while holding a vote in the round and has not
\* voted in it since: no entry of the list is theirs, and totalVotes and the
\* distribution count the other votes only.
C24_RemovedVoteNotRevealed ==
    (alast.op = "revealVotes" /\ alast.ok)
        => LET results == RevealVotes_results(agg)
               stats == RevealVotes_calculateStatistics(results)
               others == {i \in DOMAIN agg.currentVote.votes :
                            agg.currentVote.votes[i].key \notin removed}
           IN /\ \A i \in DOMAIN results : results[i].participantId \notin removed
              /\ stats.totalVotes = Cardinality(others)
              /\ \A l \in DOMAIN stats.distribution :
                    stats.distribution[l]
                       = Cardinality({i \in others : agg.currentVote.votes[i].val.value = l})

\* a round was revealed after a participant who had voted in it had been
\* removed; another participant's vote is revealed
C24_Witness ==
    /\ alast.op = "revealVotes"
    /\ alast.ok
    /\ removed # {}
    /\ alast.count = 1

\* C25: a broadcast issued for a session whose store record is absent or has
\* expired emits nothing to any connection, raises no error and saves
\* nothing, and a get-session request issued while the record is absent
\* reports not found (404).
C25_AbsentBroadcastSilent ==
    (done # Null /\ done.absent) =>
        /\ done.kind = "notify" => done.ok /\ done.emits = {} /\ ~done.saved
        /\ done.kind = "get" =>
               ~done.ok /\ done.status = 404 /\ done.emits = {} /\ ~done.saved

\* a broadcast completed for an expired session whose group has a member
C25_Witness ==
    /\ done # Null
    /\ done.kind = "notify"
    /\ done.absent
    /\ done.sid \in created
    /\ io_to(rooms, done.sid) # {}

\* C26: a mutation handler saves at most once and only once its checks have
\* passed: a handler that has saved is past its use case and never returns
\* to it, and a handler rejected by a check completes having saved nothing.
C26_OneSaveAfterChecks ==
    /\ \A i \in DOMAIN tasks :
           tasks[i].saved => /\ tasks[i].kind \in Mutations
                             /\ tasks[i].pc \notin {"joinCheck", "exec"}
    /\ (done # Null /\ done.kind \in Mutations /\ ~done.ok) => ~done.saved

\* a vote of an enrolled spectator was rejected while the session is stored
C26_Witness ==
    /\ done # Null
    /\ done.kind = "submit"
    /\ ~done.ok
    /\ done.actor = "spectator"
    /\ ~done.saved
    /\ store[done.sid] # Null

\* the class of the failure a handler completed with: the session or the
\* participant is missing, the store could not supply the session, or a
\* validation, precondition or authorization check refused the request
FailureClass(d) ==
    IF d.err = "Failed to deserialize session" THEN "infrastructure"
    ELSE IF d.err = "Session not found" THEN "notFound"
    ELSE IF d.err = "Participant not found or cannot vote" /\ d.actor = "none"
    THEN "notFound"
    ELSE "refused"

\* C27: an HTTP handler answers a not-found failure with 404, a validation,
\* precondition or authorization failure with 400 and a store failure with
\* 500.
C27_HttpStatusByClass ==
    (done # Null /\ done.chan = "http" /\ ~done.ok) =>
        done.status = CASE FailureClass(done) = "notFound" -> 404
                        [] FailureClass(done) = "infrastructure" -> 500
                        [] OTHER -> 400

-----------------------------------------------------------------------------
(* Claims about the client (SpecClient)                                    *)

\* C28: a session:updated message handled by the hook replaces the local
\* session by the snapshot it carries, whatever the local session was, and
\* a message whose session is undefined leaves the local session as it is.
C28_SnapshotReplacesSession ==
    [][handled' # handled =>
          session' = IF rx'.session = Undefined THEN session ELSE rx'.session]_vars

\* a snapshot with fewer participants than the local session was handled,
\* or an undefined one after a valid one
C28_Witness ==
    /\ handled >= 2
    /\ session # Null
    /\ \/ rx.session = Undefined
       \/ rx.session.participants = <<"p1">>

\* the client was in the group on this Socket, and is connected under a
\* socket id the group does not hold
RejoinDue == IsConnected /\ socket.joined /\ socket.sid \notin srvGroup

\* C29: after the connection of a client that was in the group of its
\* session dropped and came back, the client is registered in the group
\* again without a call by the user.
C29_ReconnectRejoins == RejoinDue ~> (IsConnected /\ socket.sid \in srvGroup)

\* C30: whenever a socket exists, the listeners of session:updated on it are
\* exactly the handler stored last, once, and so are the listeners of
\* error; an event whose handler was never stored has no listener.
C30_StoredHandlerRegisteredOnce ==
    socket # Null =>
        /\ socket.onUpdated =
              IF sessionUpdateHandler = "null" THEN <<>> ELSE <<sessionUpdateHandler>>
        /\ socket.onError = IF errorHandler = "null" THEN <<>> ELSE <<errorHandler>>

\* the second Socket of the service is connected and both handlers were stored
C30_Witness ==
    /\ socket # Null
    /\ socket.obj = 2
    /\ socket.connected
    /\ sessionUpdateHandler # "null"
    /\ errorHandler # "null"

-----------------------------------------------------------------------------
(* Claims about the store (SpecStore)                                      *)

\* C31: a save gives the session the full time-to-live again: a session that
\* was saved is in the store exactly while less than a full time-to-live has
\* passed since its last save, and the time it has left is the time-to-live
\* less the time since that save.
C31_SaveResetsExpiry ==
    \A k \in StoreKeys :
        idle[k] # -1 =>
            /\ redis[k] # Null <=> idle[k] < DefaultTtl
            /\ redis[k] # Null => redis[k].ttl = DefaultTtl - idle[k]

\* a session saved again when it had one unit left is still stored more than
\* a time-to-live after its first save
C31_Witness ==
    /\ now > DefaultTtl
    /\ idle["s1"] = DefaultTtl - 1
    /\ redis["s1"] # Null
    /\ redis["s2"] = Null
    /\ idle["s2"] = DefaultTtl

-----------------------------------------------------------------------------
(* Claims about Scale (SpecScale)                                          *)

\* C32: for every scale, custom ones included, isValidValue(v) is true
\* exactly when v is one of the scale's values and is not one of the special
\* values ABSTAIN, COFFEE and ?.
C32_ValidIffNonSpecialMember ==
    slast # Null =>
        (slast.result <=>
            /\ \E i \in DOMAIN scale : scale[i] = slast.value
            /\ slast.value \notin SpecialValues)

-----------------------------------------------------------------------------
(* Claims about concurrent handlers (Spec)                                 *)

\* C33: a save overwrites the whole stored session with the session the
\* saving handler loaded and changed, whatever was stored meanwhile: right
\* after a handler's save the store holds exactly that handler's session, so
\* when two handlers loaded before either saved, both succeed and the
\* earlier save's effect is gone.
C33_LastSaveWins ==
    (tasks # <<>> /\ tasks[Len(tasks)].pc = "saved")
        => store[tasks[Len(tasks)].sid] = Repo_serializeSession(tasks[Len(tasks)].mem)

\* a join completed successfully having saved, and the stored session does
\* not hold its participant: a later save of a handler that had loaded
\* before it overwrote it
C33_Witness ==
    /\ done # Null
    /\ done.kind = "join"
    /\ done.ok
    /\ done.saved
    /\ store[done.sid] # Null
    /\ \A i \in DOMAIN store[done.sid].participants :
           store[done.sid].participants[i].id # done.pid
    /\ \E i \in DOMAIN tasks : tasks[i].saved /\ tasks[i].pc # "exec"

\* C34: the stored status of a round only moves forward: once the store
\* holds a round as revealed, no save of a handler other than one starting a
\* new round leaves that round in voting status or with other votes.
C34_StoredRoundMovesForward ==
    [][\A sid \in SessionIds :
          (/\ store[sid] # Null
           /\ store'[sid] # Null
           /\ store[sid].currentVote # Null
           /\ store'[sid].currentVote # Null
           /\ store[sid].currentVote.status = "revealed"
           /\ tasks # <<>>
           /\ Head(tasks).kind # "start")
             => /\ store'[sid].currentVote.status # "voting"
                /\ store'[sid].currentVote.votes = store[sid].currentVote.votes]_vars

-----------------------------------------------------------------------------
(* Further claims about Session (SpecAgg): the votes and the history       *)

\* C35: after any sequence of Session methods every vote of the current
\* round is keyed by the id of a participant who is in the session with the
\* role participant.
C35_VotesBelongToVoters ==
    agg.currentVote # Null
        => \A i \in DOMAIN agg.currentVote.votes :
              RoleIn(agg, agg.currentVote.votes[i].key) = "participant"

-----------------------------------------------------------------------------
(* Claims about the registry of the gateway (Spec)                         *)

\* C36: the registry retains no connection that has disconnected: a closed
\* socket that has no handler in flight, its join handshake included, is in
\* no group of sessionParticipants.
C36_RegistryDropsDisconnected ==
    \A sid \in DOMAIN sessionParticipants :
        \A c \in sessionParticipants[sid] :
            sockState[c] = "closed" => \E i \in DOMAIN tasks : tasks[i].conn = c

\* the members of the group of a session in a registry, none if it has no entry
RegOf(sp, sid) == IF sid \in DOMAIN sp THEN sp[sid] ELSE {}

\* C37: the registration step of a join adds the joining connection to the
\* session's group, which then has an entry; a leave or a disconnect of a
\* connection attached to a session removes that connection from that group
\* and nothing else, and leaves the store as it is; no entry is ever empty.
C37_RegistryBookkeeping ==
    [][/\ \A sid \in DOMAIN sessionParticipants' : sessionParticipants'[sid] # {}
       /\ (/\ tasks # <<>>
           /\ Head(tasks).kind = "join"
           /\ Head(tasks).pc # "joinEmit"
           /\ Len(tasks') = Len(tasks)
           /\ tasks' # tasks
           /\ tasks'[Len(tasks')].pc = "joinEmit")
             => \A sid \in SessionIds :
                   RegOf(sessionParticipants', sid) =
                      IF sid = Head(tasks).sid
                      THEN RegOf(sessionParticipants, sid) \cup {Head(tasks).conn}
                      ELSE RegOf(sessionParticipants, sid)
       /\ (done' # Null /\ done'.kind \in {"leave", "disconnect"})
             => /\ store' = store
                /\ \A sid \in SessionIds :
                      RegOf(sessionParticipants', sid) =
                         IF sockData[done'.conn] # Null /\ sockData[done'.conn].sessionId = sid
                         THEN RegOf(sessionParticipants, sid) \ {done'.conn}
                         ELSE RegOf(sessionParticipants, sid)]_vars

\* the last member of a group left: the registry has no entry for the
\* session, and the session is still stored
C37_Witness ==
    /\ done # Null
    /\ done.kind \in {"leave", "disconnect"}
    /\ done.sid \in SessionIds
    /\ done.sid \notin DOMAIN sessionParticipants
    /\ store[done.sid] # Null

\* C38: the history is append-only and oldest-first: every method of
\* Session leaves the history it found as a prefix of the history it leaves,
\* only finishVoting makes it longer, by the round that was current, put
\* last, and every round in it has status finished.
C38_HistoryAppendOnly ==
    [][/\ Len(agg'.voteHistory) >= Len(agg.voteHistory)
       /\ SubSeq(agg'.voteHistory, 1, Len(agg.voteHistory)) = agg.voteHistory
       /\ \A i \in DOMAIN agg'.voteHistory : agg'.voteHistory[i].status = "finished"
       /\ Len(agg'.voteHistory) > Len(agg.voteHistory)
             => /\ alast'.op = "finishVoting"
                /\ Len(agg'.voteHistory) = Len(agg.voteHistory) + 1
                /\ agg.currentVote # Null
                /\ RoundContent(agg'.voteHistory[Len(agg'.voteHistory)])
                      = RoundContent(agg.currentVote)]_vars

\* three rounds were finished, on q2, q1 and q2 in that order, the second
\* with a vote
C38_Witness ==
    /\ Len(agg.voteHistory) = 3
    /\ agg.voteHistory[1].question = "q2"
    /\ agg.voteHistory[2].question = "q1"
    /\ Len(agg.voteHistory[2].votes) = 1
    /\ agg.voteHistory[3].question = "q2"

-----------------------------------------------------------------------------
(* Claims about the gateway's groups (SpecGateway)                         *)

\* the sessions in whose room or tracking set a socket is
GwGroupsOf(c) == {s \in GwSessions : c \in gwRooms[s] \/ c \in gwTracked[s]}

\* C39: a connection is in the group of at most one session at any time, and
\* an emit to the room of a session reaches only sockets whose latest join
\* was to that session.
C39_OneGroupPerConnection ==
    /\ \A c \in GwSockets : Cardinality(GwGroupsOf(c)) <= 1
    /\ gwRx # Null => \A c \in gwRx.to : gwData[c] = gwRx.sid

-----------------------------------------------------------------------------
(* Claims about the join handshake (Spec)                                  *)

\* handleSessionJoin, back from its first findById, handles a join that
\* supplies a participant id the loaded, active session does not hold
UnknownIdJoinHandled ==
    /\ tasks # <<>>
    /\ Head(tasks).pc = "joinCheck"
    /\ Head(tasks).pid # NoId
    /\ tasks' # tasks
    /\ Len(tasks') <= Len(tasks)
    /\ LET found == Repo_findById(Head(tasks).loaded)
       IN /\ found.ok
          /\ found.s # Null
          /\ found.s.active
          /\ Session_findParticipant(found.s, Head(tasks).pid) = Null

\* the handshake ends with an error emitted to the joining socket only;
\* nothing is stored and no participant id is generated
UnknownIdJoinRejected ==
    /\ tasks' = Tail(tasks)
    /\ done' # Null
    /\ ~done'.ok
    /\ done'.err = "Participant not found in session"
    /\ done'.emits = {ErrorEvent(Head(tasks).conn)}
    /\ \A e \in done'.emits : e.type = "error" /\ e.to \subseteq {Head(tasks).conn}
    /\ store' = store
    /\ nextPid' = nextPid

\* the socket is in no room and no group of the session and has no
\* socket.data, which every voting handler requires
Unattached(c, sid, sd, rs, sp) ==
    /\ sd[c] = Null
    /\ c \notin rs[sid]
    /\ c \notin RegOf(sp, sid)

\* C40: a join handshake that supplies a participant id not present in the
\* session is rejected with an error sent to that connection only; no
\* participant is created, the stored session is unchanged, and afterwards
\* the connection is neither registered in the session's group nor able to
\* perform voting operations.
C40_UnknownIdJoinLeavesUnattached ==
    [][UnknownIdJoinHandled
          => /\ UnknownIdJoinRejected
             /\ Unattached(Head(tasks).conn, Head(tasks).sid,
                           sockData', rooms', sessionParticipants')]_vars

\* C40 as amended: the rejected handshake leaves socket.data, the rooms and
\* the groups as they were, so a connection that was not attached before it
\* is not attached after it.
C40_UnknownIdJoinChangesNothing ==
    [][UnknownIdJoinHandled
          => /\ UnknownIdJoinRejected
             /\ sockData' = sockData
             /\ rooms' = rooms
             /\ sessionParticipants' = sessionParticipants
             /\ Unattached(Head(tasks).conn, Head(tasks).sid,
                           sockData, rooms, sessionParticipants)
                   => Unattached(Head(tasks).conn, Head(tasks).sid,
                                 sockData', rooms', sessionParticipants')]_vars

\* a join naming an id the session does not hold was rejected on an open
\* socket that had not joined, in a session that has a participant
C40_Witness ==
    /\ done # Null
    /\ done.kind = "join"
    /\ done.chan = "ws"
    /\ done.given
    /\ done.err = "Participant not found in session"
    /\ done.emits = {ErrorEvent(done.conn)}
    /\ sockState[done.conn] = "open"
    /\ sockData[done.conn] = Null
    /\ store[done.sid] # Null
    /\ nextPid > 0
====
